---- MODULE Spec2Model ----
(***************************************************************************)
(* Listener runtime of crypto-ws: one exchange adapter (Binance or         *)
(* Crypto.com) ingesting WebSocket frames into a shared status tracker and *)
(* a shared snapshot slot, and the HTTP handlers /health and /market that  *)
(* read them, all scheduled on one asyncio event loop.                     *)
(*                                                                         *)
(* Conventions.  A Python Optional is a sequence of length 0 (None) or 1.  *)
(* A Python str that the code splits or tests by prefix is a sequence of   *)
(* tokens, so that split() and startswith() are computed.  A parsed JSON   *)
(* object is a TLA+ record and `key in obj` is `key \in DOMAIN obj`.       *)
(* Time is time.time() in whole seconds.                                   *)
(***************************************************************************)
EXTENDS Integers, Sequences, FiniteSets, TLC

VARIABLES
    exchange,            \* which adapter this process runs (get_exchange_name)
    streams,             \* configured Binance streams / Crypto.com channels
    pc,                  \* position of the connect_and_subscribe task
    connection_status,   \* BaseExchangeListener.connection_status
    latest_market_data,  \* BaseExchangeListener.latest_market_data
    redis_client,        \* BaseExchangeListener.redis_client
    now,                 \* time.time()
    delivered,           \* number of frames ws.recv() has returned
    msg,                 \* the frame the receive loop read last (raw / msg)
    outbox,              \* frames sent on the websocket, oldest first
    raised,              \* exception that ended connect_and_subscribe
    health_call,         \* handle_health suspended on the Redis ping, with its locals
    response,            \* HTTP response emitted by the step just taken
    endpoint,            \* configured websocket endpoint (cfg["endpoint"])
    ws_url,              \* the URL websockets.connect was called with
    run_pc,              \* position of the run_server_and_ws task
    run_exc,             \* exception propagating through run_server_and_ws's finally
    site,                \* the HTTP listener (web.TCPSite / web.AppRunner)
    redis_conn,          \* the connection behind redis_client
    cancelling,          \* tasks on which task.cancel() is pending
    signalled,           \* a SIGINT / SIGTERM has stopped the loop
    request,             \* HTTP request accepted and not yet dispatched
    call,                \* status tracker method invoked by the step just taken
    store,               \* the _store_orderbook_to_redis tasks and the setex calls made
    sources,             \* the configuration files and os.environ that load reads
    self_config          \* self.config, set from load in the constructor

vars == <<exchange, streams, pc, connection_status, latest_market_data,
          redis_client, now, delivered, msg, outbox, raised, health_call, response,
          endpoint, ws_url, run_pc, run_exc, site, redis_conn, cancelling, signalled,
          request, call, store, sources, self_config>>

\* what the constructor read and kept
configuration == <<sources, self_config>>

\* state of run_server_and_ws and of main around it
lifecycle == <<run_pc, run_exc, site, redis_conn, cancelling, signalled>>

(***************************************************************************)
(* Bounds of the model.                                                    *)
(***************************************************************************)
MaxMessages == 2       \* frames received in one run
MaxLevels == 6         \* longest bid / ask list a frame carries
MaxTime == 62          \* the clock stops advancing here
MaxStreams == 3        \* longest configured list of streams / channels
MaxErrors == 3         \* errors recorded when the tracker is called directly

\* amounts by which the clock advances between two steps
TickSteps == {30, 31}

(***************************************************************************)
(* Optionals, strings, dictionaries.                                       *)
(***************************************************************************)
None == << >>
Some(x) == <<x>>

\* dict.get(key, default)
Get(d, key, default) == IF key \in DOMAIN d THEN d[key] ELSE default

\* Python truthiness of an Optional[str]: None and "" are falsy
TruthyText(o) == o # None /\ o[1] # ""

\* Python truthiness of an Optional[float]: None and 0.0 are falsy
TruthyNumber(o) == o # None /\ o[1] # 0

Min(a, b) == IF a < b THEN a ELSE b

\* s[:n]
Prefix(s, n) == SubSeq(s, 1, Min(n, Len(s)))

\* s.startswith(p), on token sequences
StartsWith(s, p) == Len(s) >= Len(p) /\ SubSeq(s, 1, Len(p)) = p

\* s.split(sep): the segments of s between occurrences of sep
RECURSIVE SplitFrom(_, _, _, _)
SplitFrom(s, sep, i, cur) ==
    IF i > Len(s) THEN <<cur>>
    ELSE IF s[i] = sep THEN <<cur>> \o SplitFrom(s, sep, i + 1, << >>)
    ELSE SplitFrom(s, sep, i + 1, Append(cur, s[i]))

Split(s, sep) == SplitFrom(s, sep, 1, << >>)

\* sep in s
Contains(s, sep) == \E i \in 1..Len(s) : s[i] = sep

(***************************************************************************)
(* Connection status tracker.                                              *)
(***************************************************************************)
\* variant of update_connection_status: a success starts the count again
update_connection_status_resetting(cs, connected, error) ==
    IF TruthyText(error)
    THEN [cs EXCEPT !.connected = connected,
                    !.error_count = @ + 1,
                    !.last_error = error]
    ELSE [cs EXCEPT !.connected = connected, !.error_count = 0, !.last_error = None]

\* _update_connection_status(connected, error)
update_connection_status(cs, connected, error) ==
    IF TruthyText(error)
    THEN [cs EXCEPT !.connected = connected,
                    !.error_count = @ + 1,
                    !.last_error = error]
    ELSE [cs EXCEPT !.connected = connected, !.last_error = None]

\* variant of update_message_received: a frame received clears the last error
update_message_received_clearing(cs, t) ==
    [cs EXCEPT !.last_message_time = Some(t), !.message_count = @ + 1,
               !.last_error = None]

\* _update_message_received()
update_message_received(cs, t) ==
    [cs EXCEPT !.last_message_time = Some(t), !.message_count = @ + 1]

(***************************************************************************)
(* Configuration and the frames an exchange may deliver.                   *)
(***************************************************************************)
\* get_symbols_config / get_instruments_config: the enabled entries, in order
BinanceSymbols == << [symbol |-> "btcusdt", depth |-> 10],
                     [symbol |-> "ethusdt", depth |-> 10],
                     [symbol |-> "bnbusdt", depth |-> 20],
                     [symbol |-> "solusdt", depth |-> 5],
                     [symbol |-> "xrpusdt", depth |-> 5] >>
CryptoInstruments == << [instrument |-> "BTC_USDT", depth |-> 150],
                        [instrument |-> "ETH_USDT", depth |-> 150],
                        [instrument |-> "CRO_USDT", depth |-> 50],
                        [instrument |-> "SOL_USDT", depth |-> 10],
                        [instrument |-> "XRP_USDT", depth |-> 10] >>

\* f"{symbol}@depth{depth}"
stream_name(sym_cfg) == <<sym_cfg.symbol, "@", "depth", ToString(sym_cfg.depth)>>

\* f"book.{instrument}.{depth}"
channel_name(inst_cfg) == <<"book", ".", inst_cfg.instrument, ".", ToString(inst_cfg.depth)>>

\* get_default_config: the streams / channels built from the entries
binance_streams(symbols_config) ==
    [i \in 1..Len(symbols_config) |-> stream_name(symbols_config[i])]
crypto_channels(instruments_config) ==
    [i \in 1..Len(instruments_config) |-> channel_name(instruments_config[i])]

\* the configuration shipped with the listeners: two symbols each
BinanceStreams == binance_streams(SubSeq(BinanceSymbols, 1, 2))
CryptoChannels == crypto_channels(SubSeq(CryptoInstruments, 1, 2))

\* connection.get("endpoint", ...): the defaults, "/ws" being a token of its own
BinanceEndpoint == <<"wss://stream.binance.com:9443", "/ws">>
CryptoEndpoint == <<"wss://stream.crypto.com/v2/market">>

(***************************************************************************)
(* ConfigLoader: the configuration files, the environment, and the         *)
(* normalised entries.  A dict is a function on its keys; a value of a     *)
(* configuration dict is Dict(d) for a nested dict and Val(x) otherwise;   *)
(* an item of symbols / instruments is Str(name) or Entry(dict).           *)
(***************************************************************************)
Dict(d) == [dict |-> d]
Val(x) == [val |-> x]
Str(s) == [str |-> s]
Entry(d) == [dict |-> d]

\* {}
EmptyDict == [k \in {} |-> None]

\* d[key] = value
Put(d, key, value) == [k \in DOMAIN d \cup {key} |-> IF k = key THEN value ELSE d[k]]

\* isinstance(x, dict) / isinstance(x, str)
isinstance_dict(x) == "dict" \in DOMAIN x
isinstance_str(x) == "str" \in DOMAIN x

\* str.lower() on the names used here
lower(s) ==
    CASE s \in {"BtcUsdt", "BTCUSDT"} -> "btcusdt"
      [] s = "ETHUSDT" -> "ethusdt"
      [] s = "BTC_USDT" -> "btc_usdt"
      [] s \in {"Eth_Usdt", "ETH_USDT"} -> "eth_usdt"
      [] OTHER -> s

\* str.upper() on the names used here
upper(s) ==
    CASE s \in {"btcusdt", "BtcUsdt"} -> "BTCUSDT"
      [] s = "ethusdt" -> "ETHUSDT"
      [] s = "btc_usdt" -> "BTC_USDT"
      [] s \in {"eth_usdt", "Eth_Usdt"} -> "ETH_USDT"
      [] OTHER -> s

\* str.strip() on the pieces of a comma-separated variable
strip(s) ==
    CASE s = " ETHUSDT " -> "ETHUSDT"
      [] s = " eth_usdt" -> "eth_usdt"
      [] s = " " -> ""
      [] OTHER -> s

\* int(text) on the depths an environment variable gives
int(text) ==
    CASE text = "5" -> 5
      [] text = "20" -> 20
      [] text = "0" -> 0

\* _merge_configs: a shallow copy of base; a key of override is merged
\* recursively when both values are dicts and replaces the value otherwise
RECURSIVE merge_configs(_, _)
merge_configs(base, override) ==
    [k \in DOMAIN base \cup DOMAIN override |->
        IF k \notin DOMAIN override THEN base[k]
        ELSE IF k \in DOMAIN base /\ isinstance_dict(base[k])
                /\ isinstance_dict(override[k])
             THEN Dict(merge_configs(base[k].dict, override[k].dict))
             ELSE override[k]]

\* what load hands back: the dictionary, or the exception that leaves it
Returns(config) == [returns |-> config]
Raises(error) == [raises |-> error]

\* the list built from {EXCHANGE}_SYMBOLS / {EXCHANGE}_INSTRUMENTS: the
\* non-blank pieces, stripped and case-converted, each enabled, with the
\* depth of {EXCHANGE}_DEPTH when that variable is set and not empty
env_symbols(environ) ==
    LET kept == SelectSeq(environ["SYMBOLS"], LAMBDA s : strip(s) # "")
        depth == Get(environ, "DEPTH", "")
    IN  [i \in 1..Len(kept) |->
            IF depth # ""
            THEN Entry([symbol |-> lower(strip(kept[i])), enabled |-> TRUE,
                        depth |-> int(depth)])
            ELSE Entry([symbol |-> lower(strip(kept[i])), enabled |-> TRUE])]
env_instruments(environ) ==
    LET kept == SelectSeq(environ["INSTRUMENTS"], LAMBDA s : strip(s) # "")
        depth == Get(environ, "DEPTH", "")
    IN  [i \in 1..Len(kept) |->
            IF depth # ""
            THEN Entry([instrument |-> upper(strip(kept[i])), enabled |-> TRUE,
                        depth |-> int(depth)])
            ELSE Entry([instrument |-> upper(strip(kept[i])), enabled |-> TRUE])]

\* `for symbol in config[key]: symbol["depth"] = depth`
set_depth(items, depth) ==
    [i \in 1..Len(items) |-> Entry(Put(items[i].dict, "depth", depth))]

\* the branch of {EXCHANGE}_DEPTH alone: the depth is assigned into every
\* item of symbols and of instruments; a plain-string item cannot take it
apply_depth(config, depth) ==
    LET keys == {"symbols", "instruments"} \cap DOMAIN config
    IN  IF \E k \in keys : \E i \in 1..Len(config[k].val) :
                isinstance_str(config[k].val[i])
        THEN Raises("'str' object does not support item assignment")
        ELSE Returns([k \in DOMAIN config |->
                        IF k \in keys THEN Val(set_depth(config[k].val, depth))
                        ELSE config[k]])

\* _apply_env_overrides: the endpoint, then symbols, else instruments, else
\* the depth alone
apply_env_overrides(config, environ) ==
    LET connection == Get(config, "connection", Dict(EmptyDict)).dict
        c == IF "WS_ENDPOINT" \in DOMAIN environ
             THEN Put(config, "connection",
                      Dict(Put(connection, "endpoint", Val(environ["WS_ENDPOINT"]))))
             ELSE config
    IN  IF "SYMBOLS" \in DOMAIN environ
        THEN Returns(Put(c, "symbols", Val(env_symbols(environ))))
        ELSE IF "INSTRUMENTS" \in DOMAIN environ
        THEN Returns(Put(c, "instruments", Val(env_instruments(environ))))
        ELSE IF "DEPTH" \in DOMAIN environ
        THEN apply_depth(c, int(environ["DEPTH"]))
        ELSE Returns(c)

\* the files load reads; a file that does not exist
\* (or CONFIG_ENV unset, no custom path given) is None
Layers == {"default", "env", "local", "custom"}

\* load: default.yml, then {CONFIG_ENV}.yml, local.yml and the custom file
\* merged over it, then the environment variables
load(src) ==
    LET over(config, layer) ==
            IF src.files[layer] = None THEN config
            ELSE merge_configs(config, src.files[layer][1])
        default == IF src.files["default"] = None THEN EmptyDict
                   ELSE src.files["default"][1]
    IN  apply_env_overrides(over(over(over(default, "env"), "local"), "custom"),
                            src.environ)

\* variant of get_symbols_config: the disabled entries are returned too
get_symbols_config_unfiltered(config) ==
    LET symbols == Get(config, "symbols", Val(<< >>)).val
        default_depth == Get(config, "default_depth", Val(10)).val
    IN  [i \in 1..Len(symbols) |->
            IF isinstance_str(symbols[i])
            THEN [symbol |-> lower(symbols[i].str), depth |-> default_depth,
                  enabled |-> TRUE]
            ELSE [symbol |-> lower(Get(symbols[i].dict, "symbol", "")),
                  depth |-> Get(symbols[i].dict, "depth", default_depth),
                  enabled |-> Get(symbols[i].dict, "enabled", TRUE)]]

\* get_symbols_config: plain strings and dicts normalised to symbol (lower
\* case), depth (default_depth when the entry gives none) and enabled (True
\* when the entry gives none); only the enabled ones are returned
get_symbols_config(config) ==
    LET symbols == Get(config, "symbols", Val(<< >>)).val
        default_depth == Get(config, "default_depth", Val(10)).val
        normalized == [i \in 1..Len(symbols) |->
            IF isinstance_str(symbols[i])
            THEN [symbol |-> lower(symbols[i].str), depth |-> default_depth,
                  enabled |-> TRUE]
            ELSE [symbol |-> lower(Get(symbols[i].dict, "symbol", "")),
                  depth |-> Get(symbols[i].dict, "depth", default_depth),
                  enabled |-> Get(symbols[i].dict, "enabled", TRUE)]]
    IN  SelectSeq(normalized, LAMBDA s : s.enabled)

\* get_instruments_config: the same with instrument, in upper case
get_instruments_config(config) ==
    LET instruments == Get(config, "instruments", Val(<< >>)).val
        default_depth == Get(config, "default_depth", Val(10)).val
        normalized == [i \in 1..Len(instruments) |->
            IF isinstance_str(instruments[i])
            THEN [instrument |-> upper(instruments[i].str), depth |-> default_depth,
                  enabled |-> TRUE]
            ELSE [instrument |-> upper(Get(instruments[i].dict, "instrument", "")),
                  depth |-> Get(instruments[i].dict, "depth", default_depth),
                  enabled |-> Get(instruments[i].dict, "enabled", TRUE)]]
    IN  SelectSeq(normalized, LAMBDA i : i.enabled)

\* self.config: not loaded yet, the dictionary load returned, or the
\* exception load raised out of the constructor
Unloaded == [state |-> "unloaded"]
Loaded(c) == [state |-> "loaded", value |-> c]
LoadFailed(e) == [state |-> "raised", error |-> e]

\* get_default_config: the subscription list and the endpoint of self.config
config_streams(ex, c) ==
    IF ex = "binance" THEN binance_streams(get_symbols_config(c))
    ELSE crypto_channels(get_instruments_config(c))
config_endpoint(ex, c) ==
    Get(Get(c, "connection", Dict(EmptyDict)).dict, "endpoint",
        Val(IF ex = "binance" THEN BinanceEndpoint ELSE CryptoEndpoint)).val

\* a configuration file that lists these entries and this endpoint
ConfigOf(ex, entries, ep) ==
    [k \in {IF ex = "binance" THEN "symbols" ELSE "instruments", "connection"} |->
        IF k = "connection" THEN Dict([endpoint |-> Val(ep)])
        ELSE Val([i \in 1..Len(entries) |-> Entry(entries[i])])]

\* the configuration shipped with the listeners, as default.yml
ShippedConfig(ex) ==
    IF ex = "binance" THEN ConfigOf(ex, SubSeq(BinanceSymbols, 1, 2), BinanceEndpoint)
    ELSE ConfigOf(ex, SubSeq(CryptoInstruments, 1, 2), CryptoEndpoint)

\* only default.yml exists, and no variable of the listener is set
DefaultOnly(c) ==
    [files |-> [l \in Layers |->
                    IF l = "default" THEN Some(c) ELSE None],
     environ |-> EmptyDict]

\* str.replace(old, new): every occurrence is replaced
Replace(s, old, new) == [i \in 1..Len(s) |-> IF s[i] = old THEN new ELSE s[i]]

\* sep.join(parts)
RECURSIVE Join(_, _)
Join(parts, sep) ==
    IF parts = << >> THEN << >>
    ELSE IF Len(parts) = 1 THEN parts[1]
    ELSE parts[1] \o <<sep>> \o Join(Tail(parts), sep)

\* variant of binance_url: the combined form keeps the single-stream path
binance_url_same_path(ep, strs) ==
    IF Len(strs) = 1
    THEN ep \o <<"/">> \o strs[1]
    ELSE ep \o <<"?streams=">> \o Join(strs, "/")

\* variant of binance_url: the single-stream form whenever a stream is configured
binance_url_first_stream(ep, strs) ==
    IF Len(strs) >= 1
    THEN ep \o <<"/">> \o strs[1]
    ELSE Replace(ep, "/ws", "/stream") \o <<"?streams=">> \o Join(strs, "/")

\* BinanceListener.connect_and_subscribe: the URL it connects to
binance_url(ep, strs) ==
    IF Len(strs) = 1
    THEN ep \o <<"/">> \o strs[1]
    ELSE Replace(ep, "/ws", "/stream") \o <<"?streams=">> \o Join(strs, "/")

\* the URL handed to websockets.connect
connect_url(ex, ep, strs) == IF ex = "binance" THEN binance_url(ep, strs) ELSE ep

\* one side of a book: k [price, quantity] levels, prices not monotone
Side(k, base) == [i \in 1..k |-> <<base + ((i * 3) % 7), i>>]

\* bids[:5] / asks[:5]: the number of levels a snapshot shows
DisplayLevels == 5

\* <<number of bids, number of asks>> of the books the frames carry
BookShapes == {<<0, DisplayLevels>>, <<DisplayLevels, 0>>,
               <<1, MaxLevels>>, <<MaxLevels, 1>>}
Books == {[bids |-> Side(sh[1], 100), asks |-> Side(sh[2], 200)] : sh \in BookShapes}

\* what json.loads makes of a frame: a JSONDecodeError, a number, or an object
Malformed == [json |-> "invalid"]
JsonNumber == [json |-> "number"]
Obj(o) == [json |-> "object", value |-> o]

\* a JSON null where a frame is expected to carry an object
JsonNull == [json |-> "null"]

DepthPayloads ==
    {[lastUpdateId |-> 160, bids |-> b.bids, asks |-> b.asks] : b \in Books}
    \cup {[lastUpdateId |-> 161]}

BinanceFrames ==
    {Malformed, JsonNumber}
    \cup {Obj([stream |-> BinanceStreams[2], data |-> d]) : d \in DepthPayloads}
    \cup {Obj([stream |-> BinanceStreams[2], data |-> [e |-> "trade"]])}
    \cup {Obj([stream |-> BinanceStreams[2], data |-> JsonNull])}
    \cup {Obj(d) : d \in {p \in DepthPayloads : Len(Get(p, "bids", << >>)) <= 1}}
    \cup {Obj([result |-> None, id |-> 1])}

HeartbeatIds == {0, 42}

BookEntries ==
    {[bids |-> b.bids, asks |-> b.asks, t |-> 1700] : b \in Books}
    \cup {[t |-> 1701]}

CryptoFrames ==
    {Malformed, JsonNumber}
    \cup {Obj([id |-> i, method |-> "public/heartbeat"]) : i \in HeartbeatIds}
    \cup {Obj([method |-> "public/heartbeat"])}
    \cup {Obj([id |-> 3217, method |-> "subscribe", code |-> 0])}
    \cup {Obj([method |-> "subscribe",
               result |-> [subscription |-> CryptoChannels[2], data |-> <<e>>]])
            : e \in BookEntries}
    \cup {Obj([method |-> "subscribe",
               result |-> [subscription |-> CryptoChannels[1],
                           data |-> <<[bids |-> Side(1, 100), asks |-> Side(1, 200), t |-> 1702],
                                      [bids |-> Side(2, 300), asks |-> Side(2, 400), t |-> 1703]>>]])}
    \cup {Obj([method |-> "subscribe",
               result |-> [subscription |-> CryptoChannels[1], data |-> << >>]])}
    \cup {Obj([method |-> "subscribe",
               result |-> [subscription |-> <<"trade", ".", "BTC_USDT">>,
                           data |-> <<[bids |-> Side(1, 100), asks |-> Side(1, 200), t |-> 1704]>>]])}

Frames(ex) == IF ex = "binance" THEN BinanceFrames ELSE CryptoFrames

\* a few frames of each kind, for runs that follow the status tracker only
StatusFrames(ex) ==
    IF ex = "binance"
    THEN {Malformed, Obj([lastUpdateId |-> 161])}
    ELSE {Malformed, Obj([id |-> 42, method |-> "public/heartbeat"])}

\* heartbeats with and without id, one of these carrying a book result, and
\* a book frame, for runs that follow the heartbeat branch
HeartbeatFrames(ex) ==
    IF ex = "binance" THEN StatusFrames(ex)
    ELSE {Obj([id |-> 42, method |-> "public/heartbeat"]),
          Obj([method |-> "public/heartbeat"]),
          Obj([method |-> "public/heartbeat",
               result |-> [subscription |-> CryptoChannels[1],
                           data |-> <<[bids |-> Side(1, 100), asks |-> Side(1, 200),
                                       t |-> 1705]>>]]),
          Obj([method |-> "subscribe",
               result |-> [subscription |-> CryptoChannels[2],
                           data |-> <<[bids |-> Side(1, 300), asks |-> Side(1, 400),
                                       t |-> 1706]>>]])}

(***************************************************************************)
(* Snapshot construction.                                                  *)
(***************************************************************************)
\* variant of best_of: the last level, bids[-1]
best_of_last(levels) == IF levels # << >> THEN Some(levels[Len(levels)]) ELSE None

\* bids[0] if bids else None
best_of(levels) == IF levels # << >> THEN Some(levels[1]) ELSE None

\* variant of shown: the last five levels, bids[-5:]
shown_last(levels) ==
    SubSeq(levels, Len(levels) - Min(DisplayLevels, Len(levels)) + 1, Len(levels))

\* bids[:5]
shown(levels) == Prefix(levels, DisplayLevels)

\* BinanceListener._process_depth_update(msg, stream): the new snapshot
process_depth_update(m, stream, t) ==
    LET symbol == IF Contains(stream, "@") THEN Split(stream, "@")[1] ELSE stream
        bids == Get(m, "bids", << >>)
        asks == Get(m, "asks", << >>)
    IN  [exchange |-> "binance",
         symbol |-> symbol,
         stream |-> stream,
         last_update_id |-> Get(m, "lastUpdateId", 0),
         timestamp |-> t * 1000,
         best_bid |-> best_of(bids),
         best_ask |-> best_of(asks),
         bid_count |-> Len(bids),
         ask_count |-> Len(asks),
         bids |-> shown(bids),
         asks |-> shown(asks),
         received_at |-> t]

\* variant of process_book_data: an empty data array empties the slot
process_book_data_clearing(result, subscription, latest, t) ==
    LET data == Get(result, "data", << >>) IN
    IF data = << >> THEN None
    ELSE
      LET book == data[1]
          bids == Get(book, "bids", << >>)
          asks == Get(book, "asks", << >>)
          ts == IF "t" \in DOMAIN book THEN Some(book.t) ELSE None
          parts == Split(subscription, ".")
          symbol == IF StartsWith(subscription, <<"book", ".">>) /\ Len(parts) >= 2
                    THEN parts[2] ELSE <<"unknown">>
      IN  Some([exchange |-> "crypto.com",
                subscription |-> subscription,
                symbol |-> symbol,
                timestamp |-> ts,
                best_bid |-> best_of(bids),
                best_ask |-> best_of(asks),
                bid_count |-> Len(bids),
                ask_count |-> Len(asks),
                bids |-> shown(bids),
                asks |-> shown(asks),
                received_at |-> t])

\* variant of process_book_data: the newest element of the data array, data[-1]
process_book_data_last(result, subscription, latest, t) ==
    LET data == Get(result, "data", << >>) IN
    IF data = << >> THEN latest
    ELSE
      LET book == data[Len(data)]
          bids == Get(book, "bids", << >>)
          asks == Get(book, "asks", << >>)
          ts == IF "t" \in DOMAIN book THEN Some(book.t) ELSE None
          parts == Split(subscription, ".")
          symbol == IF StartsWith(subscription, <<"book", ".">>) /\ Len(parts) >= 2
                    THEN parts[2] ELSE <<"unknown">>
      IN  Some([exchange |-> "crypto.com",
                subscription |-> subscription,
                symbol |-> symbol,
                timestamp |-> ts,
                best_bid |-> best_of(bids),
                best_ask |-> best_of(asks),
                bid_count |-> Len(bids),
                ask_count |-> Len(asks),
                bids |-> shown(bids),
                asks |-> shown(asks),
                received_at |-> t])

\* CryptoListener._process_book_data(result, subscription): the slot afterwards
process_book_data(result, subscription, latest, t) ==
    LET data == Get(result, "data", << >>) IN
    IF data = << >> THEN latest
    ELSE
      LET book == data[1]
          bids == Get(book, "bids", << >>)
          asks == Get(book, "asks", << >>)
          ts == IF "t" \in DOMAIN book THEN Some(book.t) ELSE None
          parts == Split(subscription, ".")
          symbol == IF StartsWith(subscription, <<"book", ".">>) /\ Len(parts) >= 2
                    THEN parts[2] ELSE <<"unknown">>
      IN  Some([exchange |-> "crypto.com",
                subscription |-> subscription,
                symbol |-> symbol,
                timestamp |-> ts,
                best_bid |-> best_of(bids),
                best_ask |-> best_of(asks),
                bid_count |-> Len(bids),
                ask_count |-> Len(asks),
                bids |-> shown(bids),
                asks |-> shown(asks),
                received_at |-> t])

(***************************************************************************)
(* Persisting snapshots.  `store` holds the _store_orderbook_to_redis tasks *)
(* that have not ended (tasks, oldest first, each with the snapshot it was *)
(* created with and the position it is suspended at) and the setex calls   *)
(* Redis has accepted (setex).  The tasks are followed in SpecStore only;  *)
(* elsewhere store.followed is false and they are left out.                *)
(***************************************************************************)
NoStore(followed) == [followed |-> followed, tasks |-> << >>, setex |-> << >>]

\* asyncio.create_task(self._store_orderbook_to_redis(snapshot)), if any
create_task(st, task) ==
    IF task # None /\ st.followed
    THEN [st EXCEPT !.tasks = Append(@, [data |-> task[1], at |-> "start"])]
    ELSE st

\* expiry of the two keys, in seconds
TimestampedTtl == 3600
LatestTtl == 60

\* f"orderbook:{exchange}:{symbol}:{timestamp}"
redis_key(ex, data) ==
    <<"orderbook", ":", ex, ":">> \o Get(data, "symbol", <<"unknown">>)
      \o <<":", ToString(data.timestamp)>>

\* f"orderbook:{exchange}:{symbol}:latest"
latest_key(ex, data) ==
    <<"orderbook", ":", ex, ":">> \o Get(data, "symbol", <<"unknown">>)
      \o <<":", "latest">>

\* json.dumps(orderbook_data)
dumps(data) == [json |-> "object", text_of |-> data]

\* a sequence without its i-th element
Without(seq, i) == SubSeq(seq, 1, i - 1) \o SubSeq(seq, i + 1, Len(seq))

(***************************************************************************)
(* One iteration of the receive loop, after _update_message_received: what *)
(* it does with the frame.  "continue" goes back to ws.recv(), "send"      *)
(* awaits ws.send() of a heartbeat reply, "raise" leaves the loop with an  *)
(* exception that is not a JSONDecodeError.                                *)
(***************************************************************************)
Continue(cs, latest) == [kind |-> "continue", cs |-> cs, latest |-> latest, task |-> None]
Raise(cs, latest, text) ==
    [kind |-> "raise", cs |-> cs, latest |-> latest, task |-> None, error |-> text]
Send(cs, latest, payload) ==
    [kind |-> "send", cs |-> cs, latest |-> latest, task |-> None, payload |-> payload]

\* _process_depth_update: the slot is replaced and
\* asyncio.create_task(self._store_orderbook_to_redis(self.latest_market_data))
Stored(cs, snapshot) ==
    [kind |-> "continue", cs |-> cs, latest |-> Some(snapshot), task |-> Some(snapshot)]

\* str(e) of the JSONDecodeError json.loads raises
JsonErrorText == "Expecting value: line 1 column 1 (char 0)"

\* variant of on_json_error: the error text is not passed on
on_json_error_silent(cs) == update_connection_status(cs, TRUE, None)

\* variant of on_json_error: the error is recorded where it is caught and
\* once more on the way out
on_json_error_twice(cs) ==
    update_connection_status(update_connection_status(cs, TRUE, Some(JsonErrorText)),
                             TRUE, Some(JsonErrorText))

\* the handling of a JSONDecodeError in either receive loop
on_json_error(cs) == update_connection_status(cs, TRUE, Some(JsonErrorText))

\* BinanceListener.connect_and_subscribe, body of `while True` after recv;
\* `"lastUpdateId" in data` raises TypeError when data is null
binance_on_frame(f, cfg, cs, latest, t) ==
    IF f.json = "invalid" THEN Continue(on_json_error(cs), latest)
    ELSE IF f.json = "number"
    THEN Raise(cs, latest, "argument of type 'int' is not iterable")
    ELSE
      LET m == f.value IN
      IF "stream" \in DOMAIN m /\ "data" \in DOMAIN m
      THEN IF m.data = JsonNull
           THEN Raise(cs, latest, "argument of type 'NoneType' is not iterable")
           ELSE IF "lastUpdateId" \in DOMAIN m.data
           THEN Stored(cs, process_depth_update(m.data, m.stream, t))
           ELSE Continue(cs, latest)
      ELSE IF "lastUpdateId" \in DOMAIN m
      THEN IF cfg = << >>
           THEN Raise(cs, latest, "list index out of range")
           ELSE Stored(cs, process_depth_update(m, cfg[1], t))
      ELSE Continue(cs, latest)

\* variant of heartbeat_response: replies under the subscription id
heartbeat_response_own_id(hb_id) == [id |-> 3217, method |-> "public/respond-heartbeat"]

\* the reply to a heartbeat
heartbeat_response(hb_id) == [id |-> hb_id, method |-> "public/respond-heartbeat"]

\* variant of crypto_on_frame: a heartbeat without id is not a heartbeat, it
\* goes on to the market-data branch
crypto_on_frame_fallthrough(f, cs, latest, t) ==
    IF f.json = "invalid" THEN Continue(on_json_error(cs), latest)
    ELSE IF f.json = "number"
    THEN Raise(cs, latest, "'int' object has no attribute 'get'")
    ELSE
      LET m == f.value IN
      IF "method" \in DOMAIN m /\ m.method = "public/heartbeat" /\ "id" \in DOMAIN m
      THEN Send(cs, latest, heartbeat_response(m.id))
      ELSE IF "result" \in DOMAIN m
      THEN LET result == m.result
               subscription == Get(result, "subscription", << >>)
           IN  IF StartsWith(subscription, <<"book", ".">>)
               THEN Continue(cs, process_book_data(result, subscription, latest, t))
               ELSE Continue(cs, latest)
      ELSE Continue(cs, latest)

\* CryptoListener.connect_and_subscribe, body of `while True` after recv
crypto_on_frame(f, cs, latest, t) ==
    IF f.json = "invalid" THEN Continue(on_json_error(cs), latest)
    ELSE IF f.json = "number"
    THEN Raise(cs, latest, "'int' object has no attribute 'get'")
    ELSE
      LET m == f.value IN
      IF "method" \in DOMAIN m /\ m.method = "public/heartbeat"
      THEN IF "id" \in DOMAIN m
           THEN Send(cs, latest, heartbeat_response(m.id))
           ELSE Continue(cs, latest)
      ELSE IF "result" \in DOMAIN m
      THEN LET result == m.result
               subscription == Get(result, "subscription", << >>)
           IN  IF StartsWith(subscription, <<"book", ".">>)
               THEN Continue(cs, process_book_data(result, subscription, latest, t))
               ELSE Continue(cs, latest)
      ELSE Continue(cs, latest)

\* variant of on_frame: a new snapshot is written over the old one key by key,
\* the asks not yet
on_frame_merging(ex, f, cfg, cs, latest, t) ==
    LET out == IF ex = "binance" THEN binance_on_frame(f, cfg, cs, latest, t)
               ELSE crypto_on_frame(f, cs, latest, t)
    IN  IF latest # None /\ out.latest # None
        THEN [out EXCEPT !.latest = Some([out.latest[1] EXCEPT !.asks = latest[1].asks])]
        ELSE out

\* variant of on_frame: the slot belongs to the symbol that filled it first,
\* snapshots of other symbols are dropped
on_frame_per_symbol(ex, f, cfg, cs, latest, t) ==
    LET out == IF ex = "binance" THEN binance_on_frame(f, cfg, cs, latest, t)
               ELSE crypto_on_frame(f, cs, latest, t)
    IN  IF latest # None /\ out.latest # None /\ out.latest[1].symbol # latest[1].symbol
        THEN [out EXCEPT !.latest = latest]
        ELSE out

\* the body of the receive loop of the adapter that runs
on_frame(ex, f, cfg, cs, latest, t) ==
    IF ex = "binance" THEN binance_on_frame(f, cfg, cs, latest, t)
    ELSE crypto_on_frame(f, cs, latest, t)

(***************************************************************************)
(* Crypto.com subscription request.                                        *)
(***************************************************************************)
\* variant of subscription_message: the channels in reverse order
subscription_message_reversed(channels, t) ==
    [id |-> 3217,
     method |-> "subscribe",
     params |-> [channels |-> [i \in 1..Len(channels) |-> channels[Len(channels) + 1 - i]],
                 nonce |-> t * 1000]]

\* CryptoListener._subscription_message(channels)
subscription_message(channels, t) ==
    [id |-> 3217,
     method |-> "subscribe",
     params |-> [channels |-> channels, nonce |-> t * 1000]]

(***************************************************************************)
(* GET /health.                                                            *)
(***************************************************************************)
\* seconds without a frame from which the websocket counts as unhealthy
WsStaleSeconds == 30

\* cpu, memory and disk percentage from which the system counts as unhealthy
ResourceLimit == 90

\* psutil samples: None when sampling raises
SystemSamples ==
    {None} \cup
    {Some([cpu |-> c, memory |-> m, disk |-> d]) :
        <<c, m, d>> \in {<<89, 89, 89>>, <<90, 89, 89>>, <<89, 90, 89>>, <<89, 89, 90>>}}

\* last_message_age, None while no frame has arrived
last_message_age(cs, t) ==
    IF TruthyNumber(cs.last_message_time) THEN Some(t - cs.last_message_time[1]) ELSE None

\* variant of ws_healthy: the age test replaces the connected flag
ws_healthy_age_only(cs, t) ==
    IF TruthyNumber(cs.last_message_time)
    THEN t - cs.last_message_time[1] < WsStaleSeconds
    ELSE cs.connected

\* variant of ws_healthy: before the first frame the age runs from start_time
ws_healthy_since_start(cs, t) ==
    IF TruthyNumber(cs.last_message_time)
    THEN cs.connected /\ (t - cs.last_message_time[1] < WsStaleSeconds)
    ELSE cs.connected /\ (t - cs.start_time < WsStaleSeconds)

\* variant of ws_healthy: an age of exactly the limit still counts as healthy
ws_healthy_inclusive(cs, t) ==
    IF TruthyNumber(cs.last_message_time)
    THEN cs.connected /\ (t - cs.last_message_time[1] <= WsStaleSeconds)
    ELSE cs.connected

\* ws_healthy
ws_healthy(cs, t) ==
    IF TruthyNumber(cs.last_message_time)
    THEN cs.connected /\ (t - cs.last_message_time[1] < WsStaleSeconds)
    ELSE cs.connected

\* variant of system_healthy: a percentage of exactly the limit still passes
system_healthy_inclusive(sample) ==
    /\ sample # None
    /\ sample[1].cpu <= ResourceLimit
    /\ sample[1].memory <= ResourceLimit
    /\ sample[1].disk <= ResourceLimit

\* system_healthy
system_healthy(sample) ==
    /\ sample # None
    /\ sample[1].cpu < ResourceLimit
    /\ sample[1].memory < ResourceLimit
    /\ sample[1].disk < ResourceLimit

\* variant of overall_healthy: the Redis flag is left out
overall_healthy_no_redis(ws, system, redis) == ws /\ system

\* overall_healthy
overall_healthy(ws, system, redis) == ws /\ system /\ redis

\* the locals handle_health holds when it reaches the Redis check; `read` keeps
\* the tracker fields and the clock as the handler read them on entry
health_locals(cs, t, sample) ==
    [current_time |-> t,
     uptime |-> t - cs.start_time,
     ws_healthy |-> ws_healthy(cs, t),
     last_message_age |-> last_message_age(cs, t),
     sample |-> sample,
     read |-> [connected |-> cs.connected,
               last_message_time |-> cs.last_message_time,
               time |-> t]]

\* the response handle_health builds once redis_healthy is known; cs is the
\* tracker as it is when the body is built
health_response(loc, cs, redis_healthy) ==
    LET sys == system_healthy(loc.sample)
        overall == overall_healthy(loc.ws_healthy, sys, redis_healthy)
    IN  [endpoint |-> "/health",
         status |-> IF overall THEN 200 ELSE 503,
         read |-> loc.read,
         body |->
           [status |-> IF overall THEN "healthy" ELSE "unhealthy",
            exchange |-> cs.exchange,
            timestamp |-> loc.current_time,
            uptime_seconds |-> loc.uptime,
            websocket |->
              [connected |-> cs.connected,
               healthy |-> loc.ws_healthy,
               last_message_age_seconds |->
                   IF TruthyNumber(loc.last_message_age)
                   THEN loc.last_message_age ELSE None,
               message_count |-> cs.message_count,
               error_count |-> cs.error_count,
               last_error |-> cs.last_error],
            redis |-> [connected |-> redis_healthy, healthy |-> redis_healthy],
            system |-> [healthy |-> sys, sample |-> loc.sample]]]

(***************************************************************************)
(* GET /market.                                                            *)
(***************************************************************************)
\* seconds after which a snapshot counts as stale
MarketStaleSeconds == 60

NoDataText == "No market data available yet"
StaleText == "Market data is stale"

\* variant of market_response: a snapshot of exactly the limit is stale
market_response_inclusive(latest, t) ==
    IF latest = None
    THEN [endpoint |-> "/market", status |-> 503, body |-> [error |-> NoDataText]]
    ELSE
      LET data_age == t - latest[1].received_at IN
      IF data_age >= MarketStaleSeconds
      THEN [endpoint |-> "/market", status |-> 503,
            body |-> [error |-> StaleText,
                      data_age_seconds |-> data_age,
                      last_data |-> latest[1]]]
      ELSE [endpoint |-> "/market", status |-> 200, body |-> latest[1]]

\* handle_market_data
market_response(latest, t) ==
    IF latest = None
    THEN [endpoint |-> "/market", status |-> 503, body |-> [error |-> NoDataText]]
    ELSE
      LET data_age == t - latest[1].received_at IN
      IF data_age > MarketStaleSeconds
      THEN [endpoint |-> "/market", status |-> 503,
            body |-> [error |-> StaleText,
                      data_age_seconds |-> data_age,
                      last_data |-> latest[1]]]
      ELSE [endpoint |-> "/market", status |-> 200, body |-> latest[1]]

(***************************************************************************)
(* State after construction of the listener (BaseExchangeListener.__init__ *)
(* and the subclass constructor that loads the configuration).             *)
(***************************************************************************)
Exchanges == {"binance", "crypto.com"}

\* everything but the configuration
Constructed(client) ==
    /\ pc = "idle"
    /\ now = 1
    /\ connection_status =
         [connected |-> FALSE,
          exchange |-> exchange,
          last_message_time |-> None,
          message_count |-> 0,
          error_count |-> 0,
          last_error |-> None,
          start_time |-> now]
    /\ latest_market_data = None
    /\ redis_client = client
    /\ delivered = 0
    /\ msg = None
    /\ outbox = << >>
    /\ raised = None
    /\ health_call = None
    /\ response = None
    /\ ws_url = None
    /\ run_pc = "new"
    /\ run_exc = None
    /\ site = "down"
    /\ redis_conn = IF client = None THEN "none" ELSE "open"
    /\ cancelling = {}
    /\ signalled = FALSE
    /\ request = None
    /\ call = None

\* the listener constructed from the shipped configuration
InitWith(client) ==
    /\ exchange \in Exchanges
    /\ endpoint = IF exchange = "binance" THEN BinanceEndpoint ELSE CryptoEndpoint
    /\ streams = IF exchange = "binance" THEN BinanceStreams ELSE CryptoChannels
    /\ Constructed(client)
    /\ store = NoStore(FALSE)
    /\ sources = DefaultOnly(ShippedConfig(exchange))
    /\ self_config = Loaded(ShippedConfig(exchange))

\* run_server_and_ws never calls _initialize_redis: no Redis client
Init == InitWith(None)

\* the lists of enabled entries a configuration file may give: the first n
\* entries, and the first two in the other order
ConfigLists(entries) ==
    {SubSeq(entries, 1, n) : n \in 0..Min(MaxStreams, Len(entries))}
    \cup {<<entries[2], entries[1]>>}

\* connection.endpoint of a configuration file: the default, a path with two
\* "/ws", and the combined-stream path itself
BinanceEndpoints ==
    {BinanceEndpoint,
     <<"wss://proxy.example", "/ws", "/binance", "/ws">>,
     <<"wss://stream.binance.com:9443", "/stream">>}

\* the listener constructed from any of these configurations
InitConfig ==
    /\ exchange \in Exchanges
    /\ endpoint \in IF exchange = "binance" THEN BinanceEndpoints ELSE {CryptoEndpoint}
    /\ \E l \in ConfigLists(IF exchange = "binance" THEN BinanceSymbols
                             ELSE CryptoInstruments) :
         /\ streams = IF exchange = "binance" THEN binance_streams(l)
                      ELSE crypto_channels(l)
         /\ sources = DefaultOnly(ConfigOf(exchange, l, endpoint))
         /\ self_config = Loaded(ConfigOf(exchange, l, endpoint))
    /\ Constructed(None)
    /\ store = NoStore(FALSE)

\* a listener on which _initialize_redis has been called before serving
InitRedis == InitWith(Some("redis"))

\* the points where connect_and_subscribe is suspended in an await
Suspended == {"connecting", "delay", "recv", "hb_reply"}

(***************************************************************************)
(* run_server_and_ws up to the ingestion task.                             *)
(***************************************************************************)
\* run_server_and_ws is entered: create_app, then `await runner.setup()`
StartServer ==
    /\ run_pc = "new"
    /\ run_pc' = "setup"
    /\ response' = None
    /\ UNCHANGED <<exchange, streams, pc, connection_status, latest_market_data,
                   redis_client, now, delivered, msg, outbox, raised, health_call>>
    /\ UNCHANGED <<endpoint, ws_url, run_exc, site, redis_conn, cancelling, signalled,
                   request, call>>
    /\ UNCHANGED store
    /\ UNCHANGED configuration

\* variant of CreateWsTask: the ingestion task is created ahead of
\* runner.setup() and site.start()
CreateWsTask_early ==
    /\ run_pc = "setup"
    /\ "main" \notin cancelling
    /\ pc = "idle"
    /\ pc' = "connecting"
    /\ ws_url' = Some(connect_url(exchange, endpoint, streams))
    /\ response' = None
    /\ UNCHANGED <<exchange, streams, connection_status, latest_market_data,
                   redis_client, now, delivered, msg, outbox, raised, health_call>>
    /\ UNCHANGED <<endpoint, request, call>>
    /\ UNCHANGED lifecycle
    /\ UNCHANGED store
    /\ UNCHANGED configuration

\* site.start() has returned: asyncio.create_task(self.connect_and_subscribe()),
\* and the new task runs up to websockets.connect
CreateWsTask ==
    /\ run_pc = "setup"
    /\ "main" \notin cancelling
    /\ pc = "idle"
    /\ site' = "up"
    /\ run_pc' = "awaiting"
    /\ pc' = "connecting"
    /\ ws_url' = Some(connect_url(exchange, endpoint, streams))
    /\ response' = None
    /\ UNCHANGED <<exchange, streams, connection_status, latest_market_data,
                   redis_client, now, delivered, msg, outbox, raised, health_call>>
    /\ UNCHANGED <<endpoint, run_exc, redis_conn, cancelling, signalled, request, call>>
    /\ UNCHANGED store
    /\ UNCHANGED configuration

(***************************************************************************)
(* The ingestion task.  A task on which cancel() is pending takes no step  *)
(* but the one that throws CancelledError into it.                         *)
(***************************************************************************)
\* websockets.connect succeeds: _update_connection_status(connected=True)
Connect ==
    /\ pc = "connecting"
    /\ "ws" \notin cancelling
    /\ connection_status' = update_connection_status(connection_status, TRUE, None)
    /\ pc' = IF exchange = "binance" THEN "recv" ELSE "delay"
    /\ response' = None
    /\ UNCHANGED <<exchange, streams, latest_market_data, redis_client, now, delivered, msg,
                   outbox, raised, health_call>>
    /\ UNCHANGED <<endpoint, ws_url, request, call>>
    /\ UNCHANGED lifecycle
    /\ UNCHANGED store
    /\ UNCHANGED configuration

\* variant of Subscribe: one subscribe request for each channel
Subscribe_per_channel ==
    /\ pc = "delay"
    /\ "ws" \notin cancelling
    /\ outbox' = outbox \o [i \in 1..Len(streams) |->
                              subscription_message(<<streams[i]>>, now)]
    /\ pc' = "recv"
    /\ response' = None
    /\ UNCHANGED <<exchange, streams, connection_status, latest_market_data,
                   redis_client, now, delivered, msg, raised, health_call>>
    /\ UNCHANGED <<endpoint, ws_url, request, call>>
    /\ UNCHANGED lifecycle
    /\ UNCHANGED store
    /\ UNCHANGED configuration

\* Crypto.com: asyncio.sleep(1.0) is over and the subscribe request is sent
Subscribe ==
    /\ pc = "delay"
    /\ "ws" \notin cancelling
    /\ outbox' = Append(outbox, subscription_message(streams, now))
    /\ pc' = "recv"
    /\ response' = None
    /\ UNCHANGED <<exchange, streams, connection_status, latest_market_data,
                   redis_client, now, delivered, msg, raised, health_call>>
    /\ UNCHANGED <<endpoint, ws_url, request, call>>
    /\ UNCHANGED lifecycle
    /\ UNCHANGED store
    /\ UNCHANGED configuration

\* variant of RecvFrameIn: the frame is counted once json.loads has accepted it
RecvFrameIn_after_parse(frames) ==
    /\ pc = "recv"
    /\ "ws" \notin cancelling
    /\ delivered < MaxMessages
    /\ delivered' = delivered + 1
    /\ \E f \in frames :
         LET cs1 == IF f.json = "invalid" THEN connection_status
                    ELSE update_message_received(connection_status, now)
             out == on_frame(exchange, f, streams, cs1, latest_market_data, now)
         IN  /\ msg' = Some(f)
             /\ latest_market_data' = out.latest
             /\ store' = create_task(store, out.task)
             /\ IF out.kind = "raise"
                THEN /\ connection_status' =
                          update_connection_status(out.cs, FALSE, Some(out.error))
                     /\ raised' = Some(out.error)
                     /\ pc' = "failed"
                ELSE /\ connection_status' = out.cs
                     /\ raised' = raised
                     /\ pc' = IF out.kind = "send" THEN "hb_reply" ELSE "recv"
    /\ response' = None
    /\ UNCHANGED <<exchange, streams, redis_client, now, outbox, health_call>>
    /\ UNCHANGED <<endpoint, ws_url, request, call>>
    /\ UNCHANGED lifecycle
    /\ UNCHANGED configuration

\* ws.recv() returns a frame and the loop body handles it
RecvFrameIn(frames) ==
    /\ pc = "recv"
    /\ "ws" \notin cancelling
    /\ delivered < MaxMessages
    /\ delivered' = delivered + 1
    /\ \E f \in frames :
         LET cs1 == update_message_received(connection_status, now)
             out == on_frame(exchange, f, streams, cs1, latest_market_data, now)
         IN  /\ msg' = Some(f)
             /\ latest_market_data' = out.latest
             /\ store' = create_task(store, out.task)
             /\ IF out.kind = "raise"
                THEN /\ connection_status' =
                          update_connection_status(out.cs, FALSE, Some(out.error))
                     /\ raised' = Some(out.error)
                     /\ pc' = "failed"
                ELSE /\ connection_status' = out.cs
                     /\ raised' = raised
                     /\ pc' = IF out.kind = "send" THEN "hb_reply" ELSE "recv"
    /\ response' = None
    /\ UNCHANGED <<exchange, streams, redis_client, now, outbox, health_call>>
    /\ UNCHANGED <<endpoint, ws_url, request, call>>
    /\ UNCHANGED lifecycle
    /\ UNCHANGED configuration

RecvFrame == RecvFrameIn(Frames(exchange))

RecvStatusFrame == RecvFrameIn(StatusFrames(exchange))

\* Crypto.com: the heartbeat reply has been sent, back to ws.recv()
SendHeartbeat ==
    /\ pc = "hb_reply"
    /\ "ws" \notin cancelling
    /\ outbox' = Append(outbox, heartbeat_response(msg[1].value.id))
    /\ pc' = "recv"
    /\ response' = None
    /\ UNCHANGED <<exchange, streams, connection_status, latest_market_data,
                   redis_client, now, delivered, msg, raised, health_call>>
    /\ UNCHANGED <<endpoint, ws_url, request, call>>
    /\ UNCHANGED lifecycle
    /\ UNCHANGED store
    /\ UNCHANGED configuration

\* str(e) of the exceptions connect, recv and send raise; some have no text
ErrorTexts == {"", "no close frame received or sent"}

\* connect, recv or send raises: the `except Exception` clause
ConnectionError ==
    /\ pc \in Suspended
    /\ "ws" \notin cancelling
    /\ \E text \in ErrorTexts :
         /\ connection_status' =
              update_connection_status(connection_status, FALSE, Some(text))
         /\ raised' = Some(text)
    /\ pc' = "failed"
    /\ response' = None
    /\ UNCHANGED <<exchange, streams, latest_market_data, redis_client, now, delivered, msg,
                   outbox, health_call>>
    /\ UNCHANGED <<endpoint, ws_url, request, call>>
    /\ UNCHANGED lifecycle
    /\ UNCHANGED store
    /\ UNCHANGED configuration

\* variant of Cancel: CancelledError is caught by the `except Exception` clause
Cancel_recorded ==
    /\ pc \in Suspended
    /\ connection_status' =
         update_connection_status(connection_status, FALSE, Some("CancelledError"))
    /\ pc' = "cancelled"
    /\ cancelling' = cancelling \ {"ws"}
    /\ response' = None
    /\ UNCHANGED <<exchange, streams, latest_market_data,
                   redis_client, now, delivered, msg, outbox, raised, health_call>>
    /\ UNCHANGED <<endpoint, ws_url, run_pc, run_exc, site, redis_conn, signalled,
                   request, call>>
    /\ UNCHANGED store
    /\ UNCHANGED configuration

\* the task is cancelled at an await: CancelledError is no Exception
Cancel ==
    /\ pc \in Suspended
    /\ pc' = "cancelled"
    /\ cancelling' = cancelling \ {"ws"}
    /\ response' = None
    /\ UNCHANGED <<exchange, streams, connection_status, latest_market_data,
                   redis_client, now, delivered, msg, outbox, raised, health_call>>
    /\ UNCHANGED <<endpoint, ws_url, run_pc, run_exc, site, redis_conn, signalled,
                   request, call>>
    /\ UNCHANGED store
    /\ UNCHANGED configuration

(***************************************************************************)
(* The clock.                                                              *)
(***************************************************************************)
Tick ==
    /\ \E d \in TickSteps : now + d <= MaxTime /\ now' = now + d
    /\ response' = None
    /\ UNCHANGED <<exchange, streams, pc, connection_status, latest_market_data,
                   redis_client, delivered, msg, outbox, raised, health_call>>
    /\ UNCHANGED <<endpoint, ws_url, request, call>>
    /\ UNCHANGED lifecycle
    /\ UNCHANGED store
    /\ UNCHANGED configuration

(***************************************************************************)
(* The HTTP handlers.  A handler takes the request waiting for it, if any. *)
(***************************************************************************)
\* variant of HandleHealth: without a client Redis is not required
HandleHealth_redis_optional ==
    /\ health_call = None
    /\ \E sample \in SystemSamples :
         LET loc == health_locals(connection_status, now, sample) IN
         IF redis_client = None
         THEN /\ response' = Some(health_response(loc, connection_status, TRUE))
              /\ health_call' = None
         ELSE /\ response' = None
              /\ health_call' = Some(loc)
    /\ request' = None
    /\ UNCHANGED <<exchange, streams, pc, connection_status, latest_market_data,
                   redis_client, now, delivered, msg, outbox, raised>>
    /\ UNCHANGED <<endpoint, ws_url, call>>
    /\ UNCHANGED lifecycle
    /\ UNCHANGED store
    /\ UNCHANGED configuration

\* handle_health up to the Redis check; without a client it runs to its end
HandleHealth ==
    /\ health_call = None
    /\ \E sample \in SystemSamples :
         LET loc == health_locals(connection_status, now, sample) IN
         IF redis_client = None
         THEN /\ response' = Some(health_response(loc, connection_status, FALSE))
              /\ health_call' = None
         ELSE /\ response' = None
              /\ health_call' = Some(loc)
    /\ request' = None
    /\ UNCHANGED <<exchange, streams, pc, connection_status, latest_market_data,
                   redis_client, now, delivered, msg, outbox, raised>>
    /\ UNCHANGED <<endpoint, ws_url, call>>
    /\ UNCHANGED lifecycle
    /\ UNCHANGED store
    /\ UNCHANGED configuration

\* handle_health resumes after redis_client.ping(), which returned or raised
HealthPing ==
    /\ health_call # None
    /\ \E pong \in BOOLEAN :
         response' = Some(health_response(health_call[1], connection_status, pong))
    /\ health_call' = None
    /\ UNCHANGED <<exchange, streams, pc, connection_status, latest_market_data,
                   redis_client, now, delivered, msg, outbox, raised>>
    /\ UNCHANGED <<endpoint, ws_url, request, call>>
    /\ UNCHANGED lifecycle
    /\ UNCHANGED store
    /\ UNCHANGED configuration

\* variant of HandleMarketData: a snapshot found stale is dropped from the slot
HandleMarketData_evicting ==
    /\ response' = Some(market_response(latest_market_data, now))
    /\ latest_market_data' =
         IF response'[1].status = 503 THEN None ELSE latest_market_data
    /\ request' = None
    /\ UNCHANGED <<exchange, streams, pc, connection_status,
                   redis_client, now, delivered, msg, outbox, raised, health_call>>
    /\ UNCHANGED <<endpoint, ws_url, call>>
    /\ UNCHANGED lifecycle
    /\ UNCHANGED store
    /\ UNCHANGED configuration

\* handle_market_data
HandleMarketData ==
    /\ response' = Some(market_response(latest_market_data, now))
    /\ request' = None
    /\ UNCHANGED <<exchange, streams, pc, connection_status, latest_market_data,
                   redis_client, now, delivered, msg, outbox, raised, health_call>>
    /\ UNCHANGED <<endpoint, ws_url, call>>
    /\ UNCHANGED lifecycle
    /\ UNCHANGED store
    /\ UNCHANGED configuration

\* the ingestion task of a listener that has been started
Ingest ==
    \/ StartServer
    \/ CreateWsTask
    \/ Connect
    \/ Subscribe
    \/ SendHeartbeat
    \/ ConnectionError
    \/ Cancel

Next ==
    \/ Ingest
    \/ RecvFrame
    \/ Tick
    \/ HandleHealth
    \/ HandleMarketData

Spec == Init /\ [][Next]_vars

\* the same listener with a Redis client, receiving status frames only
NextRedis ==
    \/ Ingest
    \/ RecvStatusFrame
    \/ Tick
    \/ HandleHealth
    \/ HealthPing
    \/ HandleMarketData

SpecRedis == InitRedis /\ [][NextRedis]_vars

\* ws.recv() returns a heartbeat or a book frame
RecvHeartbeatFrame == RecvFrameIn(HeartbeatFrames(exchange))

\* the ingestion task receiving heartbeats and book frames as time passes
NextHeartbeat ==
    \/ Ingest
    \/ RecvHeartbeatFrame
    \/ Tick

SpecHeartbeat == Init /\ [][NextHeartbeat]_vars

\* the ingestion task under every configuration, receiving status frames only
NextConfig ==
    \/ Ingest
    \/ RecvStatusFrame

SpecConfig == InitConfig /\ [][NextConfig]_vars

(***************************************************************************)
(* run_server_and_ws after the ingestion task, and main around it.         *)
(***************************************************************************)
\* positions at which run_server_and_ws has not ended yet
Running == {"setup", "awaiting", "redis_close", "runner_cleanup"}

\* positions at which run_server_and_ws has ended
Ended == {"returned", "raised", "cancelled"}

\* positions at which connect_and_subscribe has ended
Finished == {"failed", "cancelled"}

\* runner.setup() or site.start() raises: no task is created, nothing is cleaned up
SetupFails ==
    /\ run_pc = "setup"
    /\ "main" \notin cancelling
    /\ run_pc' = "raised"
    /\ run_exc' = Some("address already in use")
    /\ response' = None
    /\ UNCHANGED <<exchange, streams, pc, connection_status, latest_market_data,
                   redis_client, now, delivered, msg, outbox, raised, health_call>>
    /\ UNCHANGED <<endpoint, ws_url, site, redis_conn, cancelling, signalled, request, call>>
    /\ UNCHANGED store
    /\ UNCHANGED configuration

\* a signal runs loop.stop(); run_until_complete raises and main's finally
\* calls cancel() on every pending task before it runs the loop again
Shutdown ==
    /\ ~signalled
    /\ run_pc \in Running
    /\ signalled' = TRUE
    /\ cancelling' = {"main"} \cup (IF pc \in Suspended THEN {"ws"} ELSE {})
    /\ response' = None
    /\ UNCHANGED <<exchange, streams, pc, connection_status, latest_market_data,
                   redis_client, now, delivered, msg, outbox, raised, health_call>>
    /\ UNCHANGED <<endpoint, ws_url, run_pc, run_exc, site, redis_conn, request, call>>
    /\ UNCHANGED store
    /\ UNCHANGED configuration

\* the CancelledError requested by main reaches the ingestion task
CancelWsTask ==
    /\ "ws" \in cancelling
    /\ Cancel

\* variant of AwaitWsTask: the cleanup starts without the task having ended
AwaitWsTask_unawaited ==
    /\ run_pc = "awaiting"
    /\ run_exc' = IF pc = "cancelled" \/ "main" \in cancelling THEN None ELSE raised
    /\ cancelling' = cancelling \ {"main"}
    /\ run_pc' = IF redis_client = None THEN "runner_cleanup" ELSE "redis_close"
    /\ response' = None
    /\ UNCHANGED <<exchange, streams, pc, connection_status, latest_market_data,
                   redis_client, now, delivered, msg, outbox, raised, health_call>>
    /\ UNCHANGED <<endpoint, ws_url, site, redis_conn, signalled, request, call>>
    /\ UNCHANGED store
    /\ UNCHANGED configuration

\* `await ws_task` is over.  A CancelledError, from the task or from a cancel()
\* pending on run_server_and_ws itself, is caught; any other exception stays
\* raised through the finally clause, which is entered up to its first await
AwaitWsTask ==
    /\ run_pc = "awaiting"
    /\ pc \in Finished
    /\ run_exc' = IF pc = "cancelled" \/ "main" \in cancelling THEN None ELSE raised
    /\ cancelling' = cancelling \ {"main"}
    /\ run_pc' = IF redis_client = None THEN "runner_cleanup" ELSE "redis_close"
    /\ response' = None
    /\ UNCHANGED <<exchange, streams, pc, connection_status, latest_market_data,
                   redis_client, now, delivered, msg, outbox, raised, health_call>>
    /\ UNCHANGED <<endpoint, ws_url, site, redis_conn, signalled, request, call>>
    /\ UNCHANGED store
    /\ UNCHANGED configuration

\* _cleanup_redis: redis_client.close() returns, or raises an Exception that is logged
CleanupRedis ==
    /\ run_pc = "redis_close"
    /\ "main" \notin cancelling
    /\ redis_conn' \in {"closed", "close_failed"}
    /\ run_pc' = "runner_cleanup"
    /\ response' = None
    /\ UNCHANGED <<exchange, streams, pc, connection_status, latest_market_data,
                   redis_client, now, delivered, msg, outbox, raised, health_call>>
    /\ UNCHANGED <<endpoint, ws_url, run_exc, site, cancelling, signalled, request, call>>
    /\ UNCHANGED store
    /\ UNCHANGED configuration

\* runner.cleanup() returns: the listener is stopped and run_server_and_ws ends
CleanupRunner ==
    /\ run_pc = "runner_cleanup"
    /\ "main" \notin cancelling
    /\ site' = "stopped"
    /\ run_pc' = IF run_exc = None THEN "returned" ELSE "raised"
    /\ response' = None
    /\ UNCHANGED <<exchange, streams, pc, connection_status, latest_market_data,
                   redis_client, now, delivered, msg, outbox, raised, health_call>>
    /\ UNCHANGED <<endpoint, ws_url, run_exc, redis_conn, cancelling, signalled, request, call>>
    /\ UNCHANGED store
    /\ UNCHANGED configuration

\* a cancel() pending on run_server_and_ws reaches it outside its try clause:
\* CancelledError leaves it at once, the awaited call done or not
RunCancelled ==
    /\ "main" \in cancelling
    /\ run_pc \in {"setup", "redis_close", "runner_cleanup"}
    /\ run_pc' = "cancelled"
    /\ cancelling' = cancelling \ {"main"}
    /\ redis_conn' \in IF run_pc = "redis_close" THEN {redis_conn, "closed"} ELSE {redis_conn}
    /\ site' \in IF run_pc = "runner_cleanup" THEN {site, "stopped"} ELSE {site}
    /\ response' = None
    /\ UNCHANGED <<exchange, streams, pc, connection_status, latest_market_data,
                   redis_client, now, delivered, msg, outbox, raised, health_call>>
    /\ UNCHANGED <<endpoint, ws_url, run_exc, signalled, request, call>>
    /\ UNCHANGED store
    /\ UNCHANGED configuration

\* a listener started by main, with or without a Redis client
InitRun == \E client \in {None, Some("redis")} : InitWith(client)

\* the whole run of main, receiving status frames only
NextRun ==
    \/ StartServer
    \/ SetupFails
    \/ CreateWsTask
    \/ Connect
    \/ Subscribe
    \/ RecvStatusFrame
    \/ SendHeartbeat
    \/ ConnectionError
    \/ Shutdown
    \/ CancelWsTask
    \/ AwaitWsTask
    \/ CleanupRedis
    \/ CleanupRunner
    \/ RunCancelled

SpecRun == InitRun /\ [][NextRun]_vars

(***************************************************************************)
(* Requests waiting for the event loop.  The loop runs every callback that *)
(* is ready, so a handler that can run does run: weak fairness.            *)
(***************************************************************************)
\* create_app: the routes
Endpoints == {"/health", "/market"}

\* the HTTP listener accepts a request; its handler is ready to run
ArriveRequest ==
    /\ site = "up"
    /\ request = None
    /\ \E e \in Endpoints : request' = Some(e)
    /\ response' = None
    /\ UNCHANGED <<exchange, streams, pc, connection_status, latest_market_data,
                   redis_client, now, delivered, msg, outbox, raised, health_call>>
    /\ UNCHANGED <<endpoint, ws_url, call>>
    /\ UNCHANGED lifecycle
    /\ UNCHANGED store
    /\ UNCHANGED configuration

\* the event loop runs the handler of the waiting request
ServeHealth ==
    /\ request = Some("/health")
    /\ HandleHealth

\* variant of ServeMarket: the receive loop holds the event loop while it waits
ServeMarket_blocked ==
    /\ pc \notin {"delay", "recv"}
    /\ request = Some("/market")
    /\ HandleMarketData

ServeMarket ==
    /\ request = Some("/market")
    /\ HandleMarketData

\* a listener whose socket stays open, serving requests
NextLive ==
    \/ StartServer
    \/ CreateWsTask
    \/ Connect
    \/ Subscribe
    \/ RecvStatusFrame
    \/ SendHeartbeat
    \/ ArriveRequest
    \/ ServeHealth
    \/ ServeMarket
    \/ HealthPing

SpecLive ==
    /\ InitRun
    /\ [][NextLive]_vars
    /\ WF_vars(ServeHealth)
    /\ WF_vars(ServeMarket)
    /\ WF_vars(HealthPing)

\* the start of a run: the HTTP server may fail to start, the connection may
\* fail, and requests are served once the site is up
NextStart ==
    \/ NextLive
    \/ SetupFails
    \/ ConnectionError

SpecStart == InitRun /\ [][NextStart]_vars

(***************************************************************************)
(* The _store_orderbook_to_redis tasks.                                    *)
(***************************************************************************)
\* variant of StoreTimestamped: a failed write is reported to the tracker
StoreTimestamped_recording ==
    /\ \E i \in 1..Len(store.tasks) :
         /\ store.tasks[i].at = "start"
         /\ IF redis_client = None
            THEN /\ store' = [store EXCEPT !.tasks = Without(@, i)]
                 /\ connection_status' = connection_status
            ELSE \E ok \in BOOLEAN :
                   IF ok
                   THEN /\ store' =
                             [store EXCEPT
                                !.tasks[i].at = "latest",
                                !.setex = Append(@, [key |-> redis_key(exchange, store.tasks[i].data),
                                                     ttl |-> TimestampedTtl,
                                                     value |-> dumps(store.tasks[i].data)])]
                        /\ connection_status' = connection_status
                   ELSE /\ store' = [store EXCEPT !.tasks = Without(@, i)]
                        /\ connection_status' =
                             update_connection_status(connection_status, FALSE,
                                                      Some("Timeout connecting to server"))
    /\ response' = None
    /\ UNCHANGED <<exchange, streams, pc, latest_market_data,
                   redis_client, now, delivered, msg, outbox, raised, health_call>>
    /\ UNCHANGED <<endpoint, ws_url, request, call>>
    /\ UNCHANGED lifecycle
    /\ UNCHANGED configuration

\* a task starts: without a client it returns; with one it awaits
\* setex(redis_key, 3600, orderbook_json), and an Exception ends it, logged
StoreTimestamped ==
    /\ \E i \in 1..Len(store.tasks) :
         /\ store.tasks[i].at = "start"
         /\ IF redis_client = None
            THEN store' = [store EXCEPT !.tasks = Without(@, i)]
            ELSE \E ok \in BOOLEAN :
                   IF ok
                   THEN store' =
                          [store EXCEPT
                             !.tasks[i].at = "latest",
                             !.setex = Append(@, [key |-> redis_key(exchange, store.tasks[i].data),
                                                  ttl |-> TimestampedTtl,
                                                  value |-> dumps(store.tasks[i].data)])]
                   ELSE store' = [store EXCEPT !.tasks = Without(@, i)]
    /\ response' = None
    /\ UNCHANGED <<exchange, streams, pc, connection_status, latest_market_data,
                   redis_client, now, delivered, msg, outbox, raised, health_call>>
    /\ UNCHANGED <<endpoint, ws_url, request, call>>
    /\ UNCHANGED lifecycle
    /\ UNCHANGED configuration

\* the task awaits setex(latest_key, 60, orderbook_json) and ends, the call
\* accepted or an Exception logged
StoreLatest ==
    /\ \E i \in 1..Len(store.tasks) :
         /\ store.tasks[i].at = "latest"
         /\ \E ok \in BOOLEAN :
              store' =
                [store EXCEPT
                   !.tasks = Without(@, i),
                   !.setex = IF ok
                             THEN Append(@, [key |-> latest_key(exchange, store.tasks[i].data),
                                             ttl |-> LatestTtl,
                                             value |-> dumps(store.tasks[i].data)])
                             ELSE @]
    /\ response' = None
    /\ UNCHANGED <<exchange, streams, pc, connection_status, latest_market_data,
                   redis_client, now, delivered, msg, outbox, raised, health_call>>
    /\ UNCHANGED <<endpoint, ws_url, request, call>>
    /\ UNCHANGED lifecycle
    /\ UNCHANGED configuration

\* a listener with or without a Redis client, its store tasks followed
InitStore ==
    /\ exchange \in Exchanges
    /\ endpoint = IF exchange = "binance" THEN BinanceEndpoint ELSE CryptoEndpoint
    /\ streams = IF exchange = "binance" THEN BinanceStreams ELSE CryptoChannels
    /\ \E client \in {None, Some("redis")} : Constructed(client)
    /\ store = NoStore(TRUE)
    /\ sources = DefaultOnly(ShippedConfig(exchange))
    /\ self_config = Loaded(ShippedConfig(exchange))

\* ingestion of status frames with the store tasks running beside it
NextStore ==
    \/ Ingest
    \/ RecvStatusFrame
    \/ Tick
    \/ StoreTimestamped
    \/ StoreLatest

SpecStore == InitStore /\ [][NextStore]_vars

(***************************************************************************)
(* The constructor and get_default_config over configuration sources.      *)
(***************************************************************************)
\* a proxy endpoint a file or {EXCHANGE}_WS_ENDPOINT may name
ProxyEndpoint == <<"wss://proxy.example", "/ws">>

\* configuration files of the Binance listener: symbols as plain strings,
\* symbols as dicts (one disabled, one without depth), connection settings,
\* server settings
BinanceFiles ==
    [strings |-> [symbols |-> Val(<<Str("BTCUSDT"), Str("ethusdt")>>),
                  default_depth |-> Val(20)],
     entries |-> [symbols |-> Val(<<Entry([symbol |-> "BtcUsdt", depth |-> 5]),
                                    Entry([symbol |-> "ETHUSDT", enabled |-> FALSE]),
                                    Entry([symbol |-> "ethusdt"])>>),
                  connection |-> Dict([endpoint |-> Val(BinanceEndpoint),
                                       timeout |-> Val(30)])],
     connection |-> [connection |-> Dict([endpoint |-> Val(ProxyEndpoint),
                                          ping_interval |-> Val(20)]),
                     default_depth |-> Val(5),
                     server |-> Dict([port |-> Val(8000)])],
     server |-> [server |-> Dict([port |-> Val(9000), host |-> Val("0.0.0.0")])]]

\* the same for the Crypto.com listener, with instruments
CryptoFiles ==
    [strings |-> [instruments |-> Val(<<Str("btc_usdt"), Str("ETH_USDT")>>),
                  default_depth |-> Val(20)],
     entries |-> [instruments |-> Val(<<Entry([instrument |-> "Eth_Usdt", depth |-> 5]),
                                        Entry([instrument |-> "BTC_USDT", enabled |-> FALSE]),
                                        Entry([instrument |-> "btc_usdt"])>>),
                  connection |-> Dict([endpoint |-> Val(CryptoEndpoint),
                                       timeout |-> Val(30)])],
     connection |-> [connection |-> Dict([endpoint |-> Val(ProxyEndpoint),
                                          ping_interval |-> Val(20)]),
                     default_depth |-> Val(5),
                     server |-> Dict([port |-> Val(8000)])],
     server |-> [server |-> Dict([port |-> Val(9000), host |-> Val("0.0.0.0")])]]

\* os.environ, the {EXCHANGE}_ prefix left out: nothing set, the endpoint,
\* the list (with a padded piece and blank pieces), the list and a depth,
\* a depth alone, the endpoint and a depth
Environs(ex) ==
    LET list == IF ex = "binance"
                THEN [SYMBOLS |-> <<"BtcUsdt", " ETHUSDT ", " ", "">>]
                ELSE [INSTRUMENTS |-> <<"BTC_USDT", " eth_usdt", " ", "">>]
    IN  {EmptyDict,
         [WS_ENDPOINT |-> ProxyEndpoint],
         list,
         [k \in DOMAIN list \cup {"DEPTH"} |-> IF k = "DEPTH" THEN "5" ELSE list[k]],
         [DEPTH |-> "20"],
         [WS_ENDPOINT |-> ProxyEndpoint, DEPTH |-> "0"]}

\* what a listener may find when it is constructed
Sources(ex) ==
    LET f == IF ex = "binance" THEN BinanceFiles ELSE CryptoFiles
    IN  {[files |-> [default |-> d, env |-> e, local |-> l, custom |-> c],
          environ |-> environ] :
            d \in {None, Some(f.strings), Some(f.entries)},
            e \in {None, Some(f.connection)},
            l \in {None, Some(f.entries), Some(f.server)},
            c \in {None, Some(f.strings), Some(f.connection)},
            environ \in Environs(ex)}

\* __init__: self.config = self.config_loader.load(custom_config_path)
LoadConfig ==
    /\ self_config = Unloaded
    /\ LET r == load(sources)
       IN  self_config' = IF "returns" \in DOMAIN r THEN Loaded(r.returns)
                          ELSE LoadFailed(r.raises)
    /\ response' = None
    /\ UNCHANGED <<exchange, streams, pc, connection_status, latest_market_data,
                   redis_client, now, delivered, msg, outbox, raised, health_call>>
    /\ UNCHANGED <<endpoint, ws_url, request, call, sources>>
    /\ UNCHANGED lifecycle
    /\ UNCHANGED store

\* cfg = self.get_default_config(): the subscription list and the endpoint
GetDefaultConfig ==
    /\ self_config.state = "loaded"
    /\ pc = "idle"
    /\ streams' = config_streams(exchange, self_config.value)
    /\ endpoint' = config_endpoint(exchange, self_config.value)
    /\ response' = None
    /\ UNCHANGED <<exchange, pc, connection_status, latest_market_data,
                   redis_client, now, delivered, msg, outbox, raised, health_call>>
    /\ UNCHANGED <<ws_url, request, call>>
    /\ UNCHANGED lifecycle
    /\ UNCHANGED store
    /\ UNCHANGED configuration

\* a listener about to be constructed from any of these sources
InitLoad ==
    /\ exchange \in Exchanges
    /\ sources \in Sources(exchange)
    /\ self_config = Unloaded
    /\ streams = << >>
    /\ endpoint = << >>
    /\ Constructed(None)
    /\ store = NoStore(FALSE)

\* construction, then the configuration the ingestion task asks for
NextLoad ==
    \/ LoadConfig
    \/ GetDefaultConfig

SpecLoad == InitLoad /\ [][NextLoad]_vars

(***************************************************************************)
(* The status tracker called as the methods of a constructed listener.     *)
(***************************************************************************)
\* the error arguments of _update_connection_status: none, or a str(e)
StatusErrors == {None} \cup {Some(text) : text \in ErrorTexts \cup {JsonErrorText}}

\* self._update_connection_status(connected, error)
CallUpdateConnectionStatus ==
    /\ connection_status.error_count < MaxErrors
    /\ \E connected \in BOOLEAN, error \in StatusErrors :
         /\ connection_status' =
              update_connection_status(connection_status, connected, error)
         /\ call' = Some([method |-> "_update_connection_status",
                          connected |-> connected,
                          error |-> error])
    /\ response' = None
    /\ UNCHANGED <<exchange, streams, pc, latest_market_data,
                   redis_client, now, delivered, msg, outbox, raised, health_call>>
    /\ UNCHANGED <<endpoint, ws_url, request>>
    /\ UNCHANGED lifecycle
    /\ UNCHANGED store
    /\ UNCHANGED configuration

\* self._update_message_received()
CallUpdateMessageReceived ==
    /\ connection_status.message_count < MaxMessages
    /\ connection_status' = update_message_received(connection_status, now)
    /\ call' = Some([method |-> "_update_message_received"])
    /\ response' = None
    /\ UNCHANGED <<exchange, streams, pc, latest_market_data,
                   redis_client, now, delivered, msg, outbox, raised, health_call>>
    /\ UNCHANGED <<endpoint, ws_url, request>>
    /\ UNCHANGED lifecycle
    /\ UNCHANGED store
    /\ UNCHANGED configuration

NextTracker ==
    \/ CallUpdateConnectionStatus
    \/ CallUpdateMessageReceived

SpecTracker == Init /\ [][NextTracker]_vars

(***************************************************************************)
(* Vocabulary of the properties.                                           *)
(***************************************************************************)
HealthAnswered == response # None /\ response[1].endpoint = "/health"
MarketAnswered == response # None /\ response[1].endpoint = "/market"

\* this step received a frame (it is then msg')
FrameReceived == delivered' = delivered + 1

IsHeartbeat(f) ==
    /\ f.json = "object"
    /\ "method" \in DOMAIN f.value
    /\ f.value.method = "public/heartbeat"

\* the bid / ask payload of a depth or book frame, None for any other frame
BookOf(ex, f) ==
    IF f.json # "object" THEN None
    ELSE IF ex = "binance"
    THEN IF {"stream", "data"} \subseteq DOMAIN f.value
         THEN IF "lastUpdateId" \in DOMAIN f.value.data
              THEN Some(f.value.data) ELSE None
         ELSE IF "lastUpdateId" \in DOMAIN f.value THEN Some(f.value) ELSE None
    ELSE IF /\ ~IsHeartbeat(f)
            /\ "result" \in DOMAIN f.value
            /\ "subscription" \in DOMAIN f.value.result
            /\ Len(f.value.result.subscription) >= 2
            /\ f.value.result.subscription[1] = "book"
            /\ f.value.result.subscription[2] = "."
            /\ "data" \in DOMAIN f.value.result
            /\ f.value.result.data # << >>
         THEN Some(f.value.result.data[1])
         ELSE None

BidsOf(book) == IF "bids" \in DOMAIN book THEN book.bids ELSE << >>
AsksOf(book) == IF "asks" \in DOMAIN book THEN book.asks ELSE << >>

\* the frame read last was a depth / book frame with this payload
LastBook == IF msg = None THEN None ELSE BookOf(exchange, msg[1])

\* `shown` is the first min(K, 5) elements of `given`, in order
FirstFiveOf(shown_levels, given) ==
    /\ Len(shown_levels) = (IF Len(given) < 5 THEN Len(given) ELSE 5)
    /\ \A i \in 1..Len(shown_levels) : shown_levels[i] = given[i]

(***************************************************************************)
(* C1.  A frame that fails JSON parsing adds exactly 1 to error_count,     *)
(* leaves latest_market_data unchanged, leaves connected true, and the     *)
(* loop goes on to receive the next frame.                                 *)
(***************************************************************************)
C1_MalformedFrameIsCountedAndSkipped ==
    [][(FrameReceived /\ msg' = Some(Malformed)) =>
         /\ connection_status'.error_count = connection_status.error_count + 1
         /\ latest_market_data' = latest_market_data
         /\ connection_status'.connected
         /\ pc' = "recv"
         /\ raised' = raised]_vars

C1_Witness ==
    /\ msg = Some(Malformed)
    /\ pc = "recv"
    /\ connection_status.error_count = 1
    /\ connection_status.message_count = 2
    /\ latest_market_data # None

(***************************************************************************)
(* C2.  Any exception raised while connecting, receiving or sending,       *)
(* whatever its text, sets connected to false, adds exactly 1 to           *)
(* error_count, records the text in last_error and is re-raised.           *)
(***************************************************************************)
C2_FatalErrorIsRecorded ==
    [][(pc # "failed" /\ pc' = "failed") =>
         /\ ~connection_status'.connected
         /\ connection_status'.error_count = connection_status.error_count + 1
         /\ raised' # None
         /\ connection_status'.last_error = raised']_vars

(***************************************************************************)
(* C3.  /health answers 503 whenever it finds connected false, whatever    *)
(* last_message_time, the system metrics and the Redis check are.          *)
(***************************************************************************)
C3_DisconnectedIsUnhealthy ==
    (HealthAnswered /\ ~response[1].read.connected) => response[1].status = 503

C3_Witness ==
    /\ HealthAnswered
    /\ ~response[1].read.connected
    /\ response[1].read.last_message_time # None
    /\ response[1].read.time - response[1].read.last_message_time[1] < 30
    /\ response[1].body.system.healthy
    /\ response[1].body.redis.healthy
    /\ response[1].status = 503

(***************************************************************************)
(* C4.  /health answers 503 whenever a frame has been received and         *)
(* now - last_message_time >= 30, also when connected is true and the      *)
(* other checks pass; an age of exactly 30 is unhealthy.                   *)
(***************************************************************************)
C4_SilentFeedIsUnhealthy ==
    (/\ HealthAnswered
     /\ response[1].read.last_message_time # None
     /\ response[1].read.time - response[1].read.last_message_time[1] >= 30)
    => response[1].status = 503

C4_Witness ==
    /\ HealthAnswered
    /\ response[1].read.connected
    /\ response[1].read.last_message_time # None
    /\ response[1].read.time - response[1].read.last_message_time[1] = 30
    /\ response[1].body.system.healthy
    /\ response[1].body.redis.healthy
    /\ response[1].status = 503

(***************************************************************************)
(* C5.  /health answers 200 with status "healthy" exactly when the         *)
(* websocket, system and Redis flags are all true, and 503 with status     *)
(* "unhealthy" in every other case.                                        *)
(***************************************************************************)
C5_OverallIsConjunction ==
    HealthAnswered =>
      LET r == response[1]
          all == r.body.websocket.healthy /\ r.body.system.healthy /\ r.body.redis.healthy
      IN  /\ all => (r.status = 200 /\ r.body.status = "healthy")
          /\ ~all => (r.status = 503 /\ r.body.status = "unhealthy")

C5_Witness ==
    /\ HealthAnswered
    /\ response[1].status = 200
    /\ response[1].body.status = "healthy"
    /\ response[1].body.websocket.message_count > 0

(***************************************************************************)
(* C6.  With a snapshot present, /market answers 503 with the stale error, *)
(* the age and the last snapshot when now - received_at > 60, and 200 with *)
(* the stored snapshot unmodified otherwise (an age of exactly 60 too).    *)
(***************************************************************************)
C6_MarketStaleness ==
    (MarketAnswered /\ latest_market_data # None) =>
      LET r == response[1]
          age == now - latest_market_data[1].received_at
      IN  IF age > 60
          THEN /\ r.status = 503
               /\ DOMAIN r.body = {"error", "data_age_seconds", "last_data"}
               /\ r.body.error = StaleText
               /\ r.body.data_age_seconds = age
               /\ r.body.last_data = latest_market_data[1]
          ELSE /\ r.status = 200
               /\ r.body = latest_market_data[1]

C6_Witness ==
    /\ MarketAnswered
    /\ latest_market_data # None
    /\ now - latest_market_data[1].received_at = 60
    /\ response[1].status = 200

(***************************************************************************)
(* C7.  /market answers the "no data" error exactly while no snapshot has  *)
(* been stored; the slot is filled only by a received frame and, once      *)
(* filled, is never emptied again, not even by a fatal connection error.   *)
(***************************************************************************)
C7_NoDataOnlyBeforeFirstSnapshot ==
    /\ [](MarketAnswered =>
            ((response[1].status = 503 /\ response[1].body = [error |-> NoDataText])
               <=> latest_market_data = None))
    /\ [][/\ latest_market_data # None => latest_market_data' # None
          /\ latest_market_data' # latest_market_data => FrameReceived]_vars

C7_Witness ==
    /\ pc = "failed"
    /\ latest_market_data # None
    /\ MarketAnswered
    /\ response[1].body # [error |-> NoDataText]

(***************************************************************************)
(* C8.  A snapshot made from a frame with K bids and L asks has            *)
(* bid_count = K, ask_count = L, bids = the first min(K,5) bids in order   *)
(* and asks = the first min(L,5) asks in order.                            *)
(***************************************************************************)
C8_CountsAndTruncation ==
    LastBook # None =>
      /\ latest_market_data # None
      /\ latest_market_data[1].bid_count = Len(BidsOf(LastBook[1]))
      /\ latest_market_data[1].ask_count = Len(AsksOf(LastBook[1]))
      /\ FirstFiveOf(latest_market_data[1].bids, BidsOf(LastBook[1]))
      /\ FirstFiveOf(latest_market_data[1].asks, AsksOf(LastBook[1]))

C8_Witness ==
    /\ LastBook # None
    /\ Len(BidsOf(LastBook[1])) = MaxLevels
    /\ Len(AsksOf(LastBook[1])) = 1
    /\ latest_market_data # None
    /\ latest_market_data[1].bid_count = MaxLevels
    /\ Len(latest_market_data[1].bids) = 5
    /\ Len(latest_market_data[1].asks) = 1

(***************************************************************************)
(* C9.  best_bid is the first element of the frame's bid list when that    *)
(* list is non-empty and null when it is empty; likewise best_ask.         *)
(***************************************************************************)
C9_BestIsFirstOrAbsent ==
    LastBook # None =>
      /\ latest_market_data # None
      /\ latest_market_data[1].best_bid =
           (IF BidsOf(LastBook[1]) = << >> THEN None ELSE <<BidsOf(LastBook[1])[1]>>)
      /\ latest_market_data[1].best_ask =
           (IF AsksOf(LastBook[1]) = << >> THEN None ELSE <<AsksOf(LastBook[1])[1]>>)

C9_Witness ==
    /\ LastBook # None
    /\ BidsOf(LastBook[1]) = << >>
    /\ Len(AsksOf(LastBook[1])) = 5
    /\ latest_market_data # None
    /\ latest_market_data[1].best_bid = None
    /\ latest_market_data[1].best_ask = <<AsksOf(LastBook[1])[1]>>

(***************************************************************************)
(* C10.  As claimed: every Crypto.com heartbeat frame is followed by the   *)
(* send of a reply before the next frame is received.                      *)
(***************************************************************************)
C10_EveryHeartbeatIsAnswered ==
    [][(FrameReceived /\ IsHeartbeat(msg'[1])) => pc' = "hb_reply"]_vars

(***************************************************************************)
(* C10, amended.  Every Crypto.com heartbeat frame that carries an id is   *)
(* answered by exactly one reply {id: the same id, method:                 *)
(* "public/respond-heartbeat"}, sent before the next frame is received     *)
(* unless the send fails or the task is cancelled first; receiving the     *)
(* heartbeat adds 1 to message_count and leaves latest_market_data and     *)
(* error_count unchanged.                                                  *)
(***************************************************************************)
C10_HeartbeatWithIdIsAnsweredOnce ==
    [][/\ (FrameReceived /\ IsHeartbeat(msg'[1]) /\ "id" \in DOMAIN msg'[1].value) =>
            /\ pc' = "hb_reply"
            /\ outbox' = outbox
            /\ connection_status'.message_count = connection_status.message_count + 1
            /\ latest_market_data' = latest_market_data
            /\ connection_status'.error_count = connection_status.error_count
       /\ pc = "hb_reply" =>
            /\ ~FrameReceived
            /\ pc' \in {"hb_reply", "recv", "failed", "cancelled"}
            /\ pc' = "recv" =>
                 /\ outbox' = Append(outbox, [id |-> msg[1].value.id,
                                              method |-> "public/respond-heartbeat"])
                 /\ connection_status' = connection_status
                 /\ latest_market_data' = latest_market_data
            /\ pc' # "recv" => outbox' = outbox
       /\ (outbox' # outbox /\ pc # "hb_reply") => pc = "delay"]_vars

C10_Witness ==
    /\ pc = "recv"
    /\ msg # None
    /\ IsHeartbeat(msg[1])
    /\ Len(outbox) = 2
    /\ outbox[2] = [id |-> msg[1].value.id, method |-> "public/respond-heartbeat"]
    /\ connection_status.error_count = 0

(***************************************************************************)
(* Connection set-up.                                                      *)
(***************************************************************************)
\* positions in the sent frames that hold a subscribe request
SubscribeRequests(sent) == {i \in 1..Len(sent) : sent[i].method = "subscribe"}

\* C11: on a Crypto.com connection at most one subscribe request is sent, and
\* exactly one, naming all configured channels in order, once the receive loop
\* is reached; it is sent from the post-connect delay of an established
\* connection, before any frame is received; a task that is cancelled or fails
\* before or during the delay has sent none and sends none afterwards.
C11_SubscribeOnceAfterDelay ==
    [][exchange = "crypto.com" =>
         /\ Cardinality(SubscribeRequests(outbox')) <= 1
         /\ (pc' \in {"recv", "hb_reply"} \/ delivered' > 0)
              => /\ SubscribeRequests(outbox') = {1}
                 /\ outbox'[1].params.channels = streams
         /\ SubscribeRequests(outbox') # SubscribeRequests(outbox)
              => /\ pc = "delay"
                 /\ connection_status.connected
                 /\ delivered = 0
         /\ (pc \in {"idle", "connecting", "delay"} /\ pc' \in {"failed", "cancelled"})
              => outbox' = << >>
         /\ pc \in {"failed", "cancelled"} => outbox' = outbox]_vars

\* a Crypto.com run that has received every frame after its one subscribe request
C11_Witness ==
    /\ exchange = "crypto.com"
    /\ delivered = MaxMessages
    /\ SubscribeRequests(outbox) = {1}
    /\ outbox[1].params.channels = CryptoChannels

\* C12: for every configured channel list, the request sent when the
\* post-connect delay ends is an object with exactly the keys id, method and
\* params, whose method is "subscribe", whose id is an integer, whose
\* params.channels is the configured list in its order, and whose params holds
\* a nonce.
C12_SubscriptionMessageShape ==
    [][(exchange = "crypto.com" /\ pc = "delay" /\ pc' = "recv") =>
         /\ Len(outbox') = Len(outbox) + 1
         /\ LET sub == outbox'[Len(outbox')] IN
              /\ DOMAIN sub = {"id", "method", "params"}
              /\ sub.method = "subscribe"
              /\ sub.id \in Int
              /\ sub.params.channels = streams
              /\ "nonce" \in DOMAIN sub.params]_vars

\* a subscribe request naming the longest configured list, and one naming the
\* first two channels in the other order, have been sent
C12_Witness ==
    /\ exchange = "crypto.com"
    /\ outbox # << >>
    /\ \/ Len(outbox[1].params.channels) = MaxStreams
       \/ outbox[1].params.channels =
            crypto_channels(<<CryptoInstruments[2], CryptoInstruments[1]>>)

\* the stream names a Binance configuration entry can yield
IsStreamName(stream) ==
    /\ Len(stream) = 4
    /\ stream[2] = "@"
    /\ stream[3] = "depth"
    /\ \E i \in 1..Len(BinanceSymbols) :
         /\ stream[1] = BinanceSymbols[i].symbol
         /\ stream[4] = ToString(BinanceSymbols[i].depth)

\* C13: every configured Binance stream is <symbol>@depth<depth>; with one
\* stream the URL connected to is <endpoint>/<stream>; with N > 1 streams it is
\* the endpoint with each "/ws" turned into "/stream", then "?streams=", then
\* the N streams in configuration order with "/" between them.
C13_BinanceUrl ==
    (exchange = "binance" /\ ws_url # None) =>
      LET url == ws_url[1]
          n == Len(streams)
          e == Len(endpoint)
      IN  /\ \A k \in 1..n : IsStreamName(streams[k])
          /\ n = 1 => url = endpoint \o <<"/">> \o streams[1]
          /\ n > 1 =>
               /\ Len(url) = e + 5 * n
               /\ \A i \in 1..e :
                    url[i] = IF endpoint[i] = "/ws" THEN "/stream" ELSE endpoint[i]
               /\ url[e + 1] = "?streams="
               /\ \A k \in 1..n :
                    /\ SubSeq(url, e + 5 * k - 3, e + 5 * k) = streams[k]
                    /\ k > 1 => url[e + 5 * k - 4] = "/"

\* a Binance listener connected to the combined URL of several streams on an
\* endpoint that ends in "/ws"
C13_Witness ==
    /\ exchange = "binance"
    /\ pc = "recv"
    /\ Len(streams) > 1
    /\ endpoint[Len(endpoint)] = "/ws"
    /\ ws_url # None
    /\ ws_url[1][Len(endpoint)] = "/stream"

(***************************************************************************)
(* Shutdown and the end of the run.                                        *)
(***************************************************************************)
\* C14: after a shutdown signal a suspended ingestion task has a cancellation
\* pending; run_server_and_ws starts no cleanup before the ingestion task has
\* ended; the Redis connection is closed before the HTTP listener is stopped;
\* hence the HTTP listener is never stopped while the ingestion task runs.
C14_ShutdownOrder ==
    /\ (signalled /\ pc \in Suspended) => "ws" \in cancelling
    /\ (run_pc \in {"redis_close", "runner_cleanup", "returned"}
        \/ redis_conn \in {"closed", "close_failed"}
        \/ site = "stopped") => pc \in Finished
    /\ site = "stopped" => redis_conn # "open"

\* a signal has cancelled the ingestion task in its receive loop, the Redis
\* connection has been closed and the HTTP listener stopped after it
C14_Witness ==
    /\ signalled
    /\ pc = "cancelled"
    /\ delivered > 0
    /\ redis_conn = "closed"
    /\ site = "stopped"
    /\ run_pc = "returned"

\* C15: the step in which a suspended ingestion task is cancelled leaves
\* error_count and last_error as they were; once the task has ended cancelled,
\* run_server_and_ws carries no exception, never ends raising or cancelled,
\* and has stopped the HTTP listener when it has returned.
C15_CancellationIsNoError ==
    [][/\ (pc \in Suspended /\ pc' = "cancelled") =>
            /\ connection_status'.error_count = connection_status.error_count
            /\ connection_status'.last_error = connection_status.last_error
       /\ pc' = "cancelled" =>
            /\ run_exc' = None
            /\ run_pc' \in {"awaiting", "redis_close", "runner_cleanup", "returned"}
            /\ run_pc' = "returned" => site' = "stopped"]_vars

\* the task was cancelled while awaiting a frame, the error of an earlier
\* malformed frame is still recorded, and run_server_and_ws has returned
C15_Witness ==
    /\ pc = "cancelled"
    /\ delivered > 0
    /\ connection_status.error_count = 1
    /\ connection_status.last_error # None
    /\ run_pc = "returned"
    /\ site = "stopped"

\* the connection is attempted at most once, by at most one task: connected
\* turns true only at that attempt, and a failed task stays failed with
\* connected false
NoReconnect ==
    /\ pc' = "connecting" => pc \in {"idle", "connecting"}
    /\ pc # "idle" => pc' # "idle"
    /\ run_pc' = "awaiting" => run_pc \in {"setup", "awaiting"}
    /\ (~connection_status.connected /\ connection_status'.connected) =>
         (pc = "connecting" /\ pc' # "connecting")
    /\ pc' = "failed" => ~connection_status'.connected
    /\ pc = "failed" => pc' = "failed"

\* C16 as stated: no reconnect, and whenever run_server_and_ws has ended after
\* a fatal error of the ingestion task, it has ended raising that error.
C16_NoReconnectErrorSurfaced ==
    [][/\ NoReconnect
       /\ (pc' = "failed" /\ run_pc' \in Ended) =>
            (run_pc' = "raised" /\ run_exc' = raised')]_vars

(***************************************************************************)
(* The handlers and the shared state.                                      *)
(***************************************************************************)
\* the snapshots a /market response carries
SnapshotsIn(resp) ==
    IF resp.status = 200 THEN {resp.body}
    ELSE IF "last_data" \in DOMAIN resp.body THEN {resp.body.last_data}
    ELSE {}

\* some one frame, processed at the time the snapshot gives, yields all of it
FromOneFrame(snapshot) ==
    \E f \in Frames(exchange) :
       on_frame(exchange, f, streams, connection_status, None,
                snapshot.received_at).latest = Some(snapshot)

\* C17: whatever the ingestion task has done before the handler runs, the
\* snapshot in a /market response is the slot as it stands, every field of it
\* is what one single frame yields, and the age that decided between 200 and
\* stale is the age of that same snapshot.
C17_MarketSnapshotIsWhole ==
    MarketAnswered =>
      \A snapshot \in SnapshotsIn(response[1]) :
         /\ latest_market_data = Some(snapshot)
         /\ FromOneFrame(snapshot)
         /\ IF response[1].status = 200
            THEN now - snapshot.received_at <= MarketStaleSeconds
            ELSE /\ response[1].body.data_age_seconds = now - snapshot.received_at
                 /\ response[1].body.data_age_seconds > MarketStaleSeconds

\* /market answers 200 with the snapshot of the last of several frames while
\* the ingestion task is back at ws.recv()
C17_Witness ==
    /\ MarketAnswered
    /\ response[1].status = 200
    /\ delivered = MaxMessages
    /\ pc = "recv"
    /\ now > 1
    /\ response[1].body.received_at = now

\* a step of handle_health or handle_market_data
HandlerStep == response' # None \/ health_call' # health_call

\* a step of connect_and_subscribe
IngestionStep == pc \in Suspended /\ (pc' # pc \/ FrameReceived)

\* C18: no step of handle_health (before or after its Redis ping) or of
\* handle_market_data changes connection_status or latest_market_data; every
\* step that changes either is a step of the ingestion task.
C18_HandlersAreReadOnly ==
    [][/\ HandlerStep =>
            /\ connection_status' = connection_status
            /\ latest_market_data' = latest_market_data
       /\ (connection_status' # connection_status
           \/ latest_market_data' # latest_market_data) =>
            (IngestionStep /\ ~HandlerStep)]_vars

\* /market has answered that the snapshot is stale, and the snapshot and the
\* frame count are still in place
C18_Witness ==
    /\ MarketAnswered
    /\ response[1].status = 503
    /\ "last_data" \in DOMAIN response[1].body
    /\ latest_market_data = Some(response[1].body.last_data)
    /\ connection_status.message_count > 0

\* the ingestion task is suspended in the post-connect delay or in ws.recv()
Waiting == pc \in {"delay", "recv"}

\* C19: a /market request that is waiting while the ingestion task is
\* suspended in its delay or in ws.recv() is eventually answered; a /health
\* request waiting then is eventually taken up by its handler, and a
\* handle_health suspended on the Redis ping eventually answers; none of this
\* needs a further frame to arrive.
C19_RequestsAreAnswered ==
    /\ (request = Some("/market") /\ Waiting) ~> MarketAnswered
    /\ (request = Some("/health") /\ Waiting)
         ~> (request # Some("/health") /\ (HealthAnswered \/ health_call # None))
    /\ (health_call # None) ~> HealthAnswered

\* /health has answered while the ingestion task waits in ws.recv() for a
\* frame that will not come
C19_Witness ==
    /\ HealthAnswered
    /\ pc = "recv"
    /\ delivered = MaxMessages
    /\ site = "up"

(***************************************************************************)
(* The status tracker.                                                     *)
(***************************************************************************)
\* C20: over every sequence of calls of the two tracker methods error_count
\* never gets smaller, and a call of _update_connection_status without an
\* error leaves last_error null and error_count as it was.
C20_ErrorCountNeverDecreases ==
    [][/\ connection_status'.error_count >= connection_status.error_count
       /\ (/\ call' # None
           /\ call'[1].method = "_update_connection_status"
           /\ call'[1].error = None) =>
            /\ connection_status'.last_error = None
            /\ connection_status'.error_count = connection_status.error_count]_vars

\* after two recorded errors a status update without an error has cleared
\* last_error and kept the count
C20_Witness ==
    /\ call # None
    /\ call[1].method = "_update_connection_status"
    /\ call[1].error = None
    /\ connection_status.error_count = 2
    /\ connection_status.last_error = None

(***************************************************************************)
(* GET /health: system metrics, Redis, consistency.                        *)
(***************************************************************************)
\* C21: every /health response whose psutil sampling raised reports
\* system.healthy false with status 503; every response whose sampling
\* succeeded reports system.healthy true exactly when cpu, memory and disk
\* are each below 90.
C21_SystemSampling ==
    HealthAnswered =>
      LET body == response[1].body
          sample == body.system.sample
      IN  IF sample = None
          THEN /\ ~body.system.healthy
               /\ response[1].status = 503
               /\ body.status = "unhealthy"
          ELSE body.system.healthy <=>
                 (/\ sample[1].cpu < 90
                  /\ sample[1].memory < 90
                  /\ sample[1].disk < 90)

\* sampling raised while the websocket and Redis were healthy: the handler
\* still answered, with 503
C21_Witness ==
    /\ HealthAnswered
    /\ response[1].body.system.sample = None
    /\ response[1].body.websocket.healthy
    /\ response[1].body.redis.healthy
    /\ response[1].status = 503

(***************************************************************************)
(* Frames and the receive loop.                                            *)
(***************************************************************************)
\* C22 as stated: whatever the content of a received frame, after it the
\* adapter is still connected and goes on to receive the next frame (through
\* the heartbeat reply, if it owes one).
C22_NoFrameEndsIngestion ==
    [][FrameReceived =>
         /\ connection_status'.connected
         /\ pc' \in {"recv", "hb_reply"}]_vars

C24_HealthBodyIsConsistent ==
    HealthAnswered =>
      LET body == response[1].body
      IN  (body.websocket.healthy \/ body.status = "healthy")
            => body.websocket.connected

\* the part of a stream name before its first separator, the whole name
\* when it has none
BeforeFirst(s, sep) ==
    IF \E i \in 1..Len(s) : s[i] = sep
    THEN SubSeq(s, 1, (CHOOSE i \in 1..Len(s) :
                         s[i] = sep /\ \A j \in 1..(i - 1) : s[j] # sep) - 1)
    ELSE s

\* C25 as stated: on Binance a {stream, data} frame whose data carries
\* lastUpdateId replaces the snapshot under the frame's stream name and the
\* symbol before its first "@"; a bare frame carrying lastUpdateId replaces it
\* under the first configured stream; any other JSON object leaves the snapshot
\* and error_count unchanged.
C25_BinanceDispatch ==
    [][(FrameReceived /\ exchange = "binance" /\ msg'[1].json = "object") =>
         LET m == msg'[1].value
             enveloped == {"stream", "data"} \subseteq DOMAIN m
         IN  IF enveloped /\ "lastUpdateId" \in DOMAIN m.data
             THEN /\ latest_market_data' # None
                  /\ latest_market_data'[1].stream = m.stream
                  /\ latest_market_data'[1].symbol = BeforeFirst(m.stream, "@")
                  /\ latest_market_data'[1].last_update_id = m.data.lastUpdateId
                  /\ latest_market_data'[1].received_at = now
             ELSE IF ~enveloped /\ "lastUpdateId" \in DOMAIN m
             THEN /\ latest_market_data' # None
                  /\ latest_market_data'[1].stream = streams[1]
                  /\ latest_market_data'[1].symbol = BeforeFirst(streams[1], "@")
                  /\ latest_market_data'[1].last_update_id = m.lastUpdateId
                  /\ latest_market_data'[1].received_at = now
             ELSE /\ latest_market_data' = latest_market_data
                  /\ connection_status'.error_count = connection_status.error_count]_vars

\* the second segment of s when it is cut at every separator
SecondSegment(s, sep) ==
    LET at == {i \in 1..Len(s) : s[i] = sep}
        first == CHOOSE i \in at : \A j \in at : i <= j
        later == {i \in at : i > first}
        stop == IF later = {} THEN Len(s) + 1
                ELSE CHOOSE i \in later : \A j \in later : i <= j
    IN  SubSeq(s, first + 1, stop - 1)

\* C26: on Crypto.com a frame with a result whose subscription starts with
\* "book." and whose data array is empty changes neither the snapshot nor
\* error_count; with a non-empty array the snapshot is replaced from the first
\* data element alone, its symbol being the second dot-separated segment of
\* the subscription; a result with any other subscription leaves the snapshot
\* unchanged.
C26_CryptoBookFrames ==
    [][(/\ FrameReceived
        /\ exchange = "crypto.com"
        /\ msg'[1].json = "object"
        /\ "result" \in DOMAIN msg'[1].value) =>
         LET result == msg'[1].value.result
             subscription == Get(result, "subscription", << >>)
             data == Get(result, "data", << >>)
         IN  IF StartsWith(subscription, <<"book", ".">>)
             THEN IF data = << >>
                  THEN /\ latest_market_data' = latest_market_data
                       /\ connection_status'.error_count = connection_status.error_count
                  ELSE /\ latest_market_data' # None
                       /\ latest_market_data'[1].subscription = subscription
                       /\ latest_market_data'[1].symbol = SecondSegment(subscription, ".")
                       /\ latest_market_data'[1].timestamp =
                            (IF "t" \in DOMAIN data[1] THEN Some(data[1].t) ELSE None)
                       /\ latest_market_data'[1].bid_count = Len(BidsOf(data[1]))
                       /\ latest_market_data'[1].ask_count = Len(AsksOf(data[1]))
                       /\ FirstFiveOf(latest_market_data'[1].bids, BidsOf(data[1]))
                       /\ FirstFiveOf(latest_market_data'[1].asks, AsksOf(data[1]))
                       /\ latest_market_data'[1].received_at = now
             ELSE latest_market_data' = latest_market_data]_vars

\* a book frame with two data elements has been received and the snapshot
\* shows the first of them
C26_Witness ==
    /\ exchange = "crypto.com"
    /\ msg # None
    /\ msg[1].json = "object"
    /\ "result" \in DOMAIN msg[1].value
    /\ Len(msg[1].value.result.data) = 2
    /\ latest_market_data # None
    /\ latest_market_data[1].timestamp = Some(msg[1].value.result.data[1].t)
    /\ latest_market_data[1].symbol = <<"BTC_USDT">>
    /\ pc = "recv"

\* C27: every frame ws.recv() returns, whatever it holds, adds exactly 1 to
\* message_count and sets last_message_time to the time of arrival, also when
\* parsing it fails; and the websocket flag of /health is determined by
\* connected and the age of the last frame alone.
C27_EveryFrameIsCounted ==
    [][/\ FrameReceived =>
            /\ connection_status'.message_count = connection_status.message_count + 1
            /\ connection_status'.last_message_time = Some(now)
       /\ HealthAnswered' =>
            LET read == response'[1].read
            IN  response'[1].body.websocket.healthy <=>
                  /\ read.connected
                  /\ \/ read.last_message_time = None
                     \/ read.time - read.last_message_time[1] < 30]_vars

\* two frames that json.loads rejected, no snapshot ever stored, and /health
\* reports the websocket healthy with both frames counted
C27_Witness ==
    /\ HealthAnswered
    /\ msg # None
    /\ msg[1].json = "invalid"
    /\ delivered = 2
    /\ latest_market_data = None
    /\ response[1].body.websocket.message_count = 2
    /\ response[1].body.websocket.healthy

\* C28: a /health request that finds connected true and no last_message_time
\* reports websocket.healthy true, however long ago the connection was made.
C28_ConnectedWithoutFramesIsHealthy ==
    (/\ HealthAnswered
     /\ response[1].read.connected
     /\ response[1].read.last_message_time = None)
    => response[1].body.websocket.healthy

\* such a response more than a minute after the listener started
C28_Witness ==
    /\ HealthAnswered
    /\ response[1].read.connected
    /\ response[1].read.last_message_time = None
    /\ response[1].body.websocket.message_count = 0
    /\ response[1].body.uptime_seconds > 60
    /\ response[1].body.websocket.healthy

\* C29 as stated: once an error has been counted last_error is never null
\* again: a frame that parses leaves it alone and a later error replaces it.
C29_CountedErrorStaysVisible ==
    connection_status.error_count > 0 => connection_status.last_error # None

\* the stream or subscription a depth / book frame is stored under
SourceOf(ex, f, cfg) ==
    IF ex = "binance"
    THEN IF {"stream", "data"} \subseteq DOMAIN f.value THEN f.value.stream ELSE cfg[1]
    ELSE f.value.result.subscription

\* the stream or subscription a snapshot names
SourceIn(snapshot) ==
    IF snapshot.exchange = "binance" THEN snapshot.stream ELSE snapshot.subscription

\* C30: the snapshot slot is last-writer-wins.  A received frame that carries
\* a depth or book payload puts its own snapshot in the slot whatever symbol
\* the slot held; any other frame, and any step that receives none, leaves the
\* slot as it is.  The slot is therefore always the snapshot of the latest
\* frame that produced one.
C30_LastWriterWins ==
    [][IF FrameReceived /\ BookOf(exchange, msg'[1]) # None
       THEN LET book == BookOf(exchange, msg'[1])[1]
            IN  /\ latest_market_data' # None
                /\ SourceIn(latest_market_data'[1]) = SourceOf(exchange, msg'[1], streams)
                /\ latest_market_data'[1].received_at = now
                /\ latest_market_data'[1].bid_count = Len(BidsOf(book))
                /\ latest_market_data'[1].ask_count = Len(AsksOf(book))
                /\ FirstFiveOf(latest_market_data'[1].bids, BidsOf(book))
                /\ FirstFiveOf(latest_market_data'[1].asks, AsksOf(book))
       ELSE latest_market_data' = latest_market_data]_vars

\* the second frame received, more than 30 seconds after the start, was a
\* depth frame stored under the first stream, and the slot holds its snapshot
C30_Witness ==
    /\ exchange = "binance"
    /\ delivered = 2
    /\ msg # None
    /\ BookOf(exchange, msg[1]) # None
    /\ latest_market_data # None
    /\ latest_market_data[1].stream = streams[1]
    /\ latest_market_data[1].received_at = now
    /\ now > 30


(* Counters, start-up and shutdown. *)
\* C31: in a listener run error_count never exceeds message_count + 1; a
\* snapshot in the slot means a frame has been counted and last_message_time
\* is set; and a frame is only ever counted on a connection that is marked
\* connected, so message_count > 0 means the connection was established before.
C31_CountersAgree ==
    /\ [](/\ connection_status.error_count <= connection_status.message_count + 1
          /\ latest_market_data # None =>
               /\ connection_status.message_count >= 1
               /\ connection_status.last_message_time # None)
    /\ [][connection_status'.message_count # connection_status.message_count =>
            /\ connection_status.connected
            /\ ws_url # None
            /\ connection_status.message_count = 0 =>
                 connection_status'.message_count = 1]_vars

\* one frame was malformed and the connection then failed: two errors on one
\* frame, the bound is met
C31_Witness ==
    /\ pc = "failed"
    /\ connection_status.message_count = 1
    /\ connection_status.error_count = 2
    /\ latest_market_data = None

\* C32: the ingestion task has been created only once the HTTP site is up; when
\* starting the HTTP server has failed no connection is attempted; and until
\* the connect has succeeded connected is false and every /health response is
\* a 503.
C32_ServerBeforeIngestion ==
    /\ pc # "idle" => site = "up"
    /\ ws_url # None => site = "up"
    /\ run_pc = "raised" => (pc = "idle" /\ ws_url = None /\ site = "down")
    /\ pc \in {"idle", "connecting"} =>
         /\ ~connection_status.connected
         /\ HealthAnswered =>
              /\ response[1].status = 503
              /\ ~response[1].body.websocket.connected
              /\ ~response[1].body.websocket.healthy

\* the site is up and the connect has not returned yet: /health answers 503
\* although the system metrics and Redis are healthy
C32_Witness ==
    /\ HealthAnswered
    /\ site = "up"
    /\ pc = "connecting"
    /\ response[1].body.system.healthy
    /\ response[1].body.redis.healthy
    /\ response[1].status = 503

\* C33 as stated: whichever way the ingestion task has ended, once
\* run_server_and_ws has ended the Redis client, if there is one, has been
\* closed (or its close has failed and was swallowed) and the HTTP runner has
\* been cleaned up after it.
C33_CleanupOnEveryEnd ==
    /\ (run_pc \in Ended /\ pc \in Finished) =>
         /\ redis_client # None => redis_conn \in {"closed", "close_failed"}
         /\ site = "stopped"
    /\ site = "stopped" => redis_conn # "open"


(* The external store. *)
\* this step was taken by a _store_orderbook_to_redis task
StoreStep == store' # store /\ delivered' = delivered

\* C34: a step of a _store_orderbook_to_redis task, whether it writes, fails or
\* returns at once, leaves connection_status, latest_market_data and the
\* receive loop as they are; without a client it writes nothing; with one, a
\* task writes at most one key per step: first the key ending in the
\* snapshot's timestamp, with an expiry of 3600 seconds, then the key ending
\* in "latest", with an expiry of 60 seconds, and it ends with the second.
C34_StoreNeverAffectsCore ==
    [][StoreStep =>
         /\ connection_status' = connection_status
         /\ latest_market_data' = latest_market_data
         /\ pc' = pc
         /\ raised' = raised
         /\ redis_client = None => store'.setex = store.setex
         /\ store'.setex # store.setex =>
              /\ Len(store'.setex) = Len(store.setex) + 1
              /\ SubSeq(store'.setex, 1, Len(store.setex)) = store.setex
              /\ LET w == store'.setex[Len(store'.setex)]
                 IN  \E i \in 1..Len(store.tasks) :
                       LET data == store.tasks[i].data
                           prefix == <<"orderbook", ":", "binance", ":">> \o data.symbol
                       IN  \/ /\ store.tasks[i].at = "start"
                              /\ w.key = prefix \o <<":", ToString(data.timestamp)>>
                              /\ w.ttl = 3600
                              /\ w.value.text_of = data
                              /\ Len(store'.tasks) = Len(store.tasks)
                           \/ /\ store.tasks[i].at = "latest"
                              /\ w.key = prefix \o <<":", "latest">>
                              /\ w.ttl = 60
                              /\ w.value.text_of = data
                              /\ \E j \in 1..Len(store.setex) :
                                   /\ store.setex[j].ttl = 3600
                                   /\ store.setex[j].value.text_of = data
                              /\ Len(store'.tasks) = Len(store.tasks) - 1]_vars

\* two snapshots were handed to store tasks; one wrote both its keys, the
\* other failed on its second write; the receive loop is still receiving and
\* no error has been counted
C34_Witness ==
    /\ redis_client # None
    /\ delivered = 2
    /\ store.tasks = << >>
    /\ Len(store.setex) = 3
    /\ pc = "recv"
    /\ connection_status.connected
    /\ connection_status.error_count = 0
    /\ latest_market_data # None


(* The status tracker and the configuration. *)
\* C35: _update_message_received adds exactly 1 to message_count and sets
\* last_message_time, leaving connected, error_count and last_error as they
\* were; _update_connection_status leaves message_count and
\* last_message_time as they were; neither changes latest_market_data.
C35_TrackerTouchesOwnFields ==
    [][call' # None =>
         /\ latest_market_data' = latest_market_data
         /\ connection_status'.start_time = connection_status.start_time
         /\ connection_status'.exchange = connection_status.exchange
         /\ IF call'[1].method = "_update_message_received"
            THEN /\ connection_status'.message_count = connection_status.message_count + 1
                 /\ connection_status'.last_message_time = Some(now)
                 /\ connection_status'.connected = connection_status.connected
                 /\ connection_status'.error_count = connection_status.error_count
                 /\ connection_status'.last_error = connection_status.last_error
            ELSE /\ connection_status'.message_count = connection_status.message_count
                 /\ connection_status'.last_message_time =
                      connection_status.last_message_time]_vars

\* _update_message_received has just been called on a connected listener that
\* has an error recorded
C35_Witness ==
    /\ call # None
    /\ call[1].method = "_update_message_received"
    /\ connection_status.connected
    /\ connection_status.error_count > 0
    /\ connection_status.last_error # None
    /\ connection_status.message_count = 2


(***************************************************************************)
(* The subscription list and the configuration sources.                    *)
(***************************************************************************)
\* the items self.config lists for this exchange
ListedItems ==
    LET key == IF exchange = "binance" THEN "symbols" ELSE "instruments"
    IN  IF key \in DOMAIN self_config.value THEN self_config.value[key].val ELSE << >>

\* the positions of the items that are not disabled
EnabledItems ==
    {i \in 1..Len(ListedItems) :
        \/ isinstance_str(ListedItems[i])
        \/ "enabled" \notin DOMAIN ListedItems[i].dict
        \/ ListedItems[i].dict.enabled}

\* the k-th of them, in configuration order
NthEnabled(k) ==
    CHOOSE i \in EnabledItems : Cardinality({j \in EnabledItems : j < i}) = k - 1

\* the stream / channel an item asks for
SubscriptionOf(item) ==
    LET default_depth == IF "default_depth" \in DOMAIN self_config.value
                         THEN self_config.value["default_depth"].val ELSE 10
        depth == IF isinstance_dict(item) /\ "depth" \in DOMAIN item.dict
                 THEN item.dict.depth ELSE default_depth
        name == IF isinstance_str(item) THEN item.str
                ELSE IF exchange = "binance" THEN item.dict.symbol
                ELSE item.dict.instrument
    IN  IF exchange = "binance"
        THEN <<lower(name), "@", "depth", ToString(depth)>>
        ELSE <<"book", ".", upper(name), ".", ToString(depth)>>

\* C36: once get_default_config has run on a loaded configuration, the
\* subscription list has exactly one entry per enabled symbol / instrument,
\* in configuration order, and none for a disabled one; a Binance stream is
\* <lower-cased symbol>@depth<depth>, a Crypto.com channel is
\* book.<upper-cased instrument>.<depth>, and the depth is default_depth
\* where the entry gives none.
C36_SubscriptionList ==
    (self_config.state = "loaded" /\ endpoint # << >>) =>
        /\ Len(streams) = Cardinality(EnabledItems)
        /\ \A k \in 1..Len(streams) :
             streams[k] = SubscriptionOf(ListedItems[NthEnabled(k)])

\* get_default_config has run on a Binance configuration that lists a
\* mixed-case symbol with a depth, a disabled symbol and a symbol without
\* depth, no default_depth being set: two streams, the second at depth 10
C36_Witness ==
    /\ self_config.state = "loaded"
    /\ endpoint # << >>
    /\ exchange = "binance"
    /\ ListedItems = BinanceFiles.entries.symbols.val
    /\ "default_depth" \notin DOMAIN self_config.value
    /\ streams = << <<"btcusdt", "@", "depth", "5">>,
                    <<"ethusdt", "@", "depth", "10">> >>


\* priority of the files, lowest first
LayerRank(l) ==
    CASE l = "default" -> 1 [] l = "env" -> 2 [] l = "local" -> 3 [] l = "custom" -> 4

\* the file of a layer that exists
FileOf(l) == sources.files[l][1]

\* the files that set a top-level key, and those that set a key nested in it
LayersSetting(k) ==
    {l \in Layers : sources.files[l] # None /\ k \in DOMAIN FileOf(l)}
LayersSettingIn(k, j) ==
    {l \in LayersSetting(k) :
        isinstance_dict(FileOf(l)[k]) /\ j \in DOMAIN FileOf(l)[k].dict}

\* the file of highest priority among some
TopLayer(ls) == CHOOSE l \in ls : \A m \in ls : LayerRank(m) <= LayerRank(l)

\* the keys any file sets, and the keys any file nests under one of them
KeysSet == UNION {DOMAIN FileOf(l) : l \in {m \in Layers : sources.files[m] # None}}
KeysSetIn(k) ==
    UNION {DOMAIN FileOf(l)[k].dict :
             l \in {m \in LayersSetting(k) : isinstance_dict(FileOf(m)[k])}}

\* the key of the list an environment variable replaces, if one does
EnvListKey ==
    IF "SYMBOLS" \in DOMAIN sources.environ THEN "symbols"
    ELSE IF "INSTRUMENTS" \in DOMAIN sources.environ THEN "instruments"
    ELSE "none"

\* the names a comma-separated variable gives
EnvNames ==
    LET pieces == IF EnvListKey = "symbols" THEN sources.environ["SYMBOLS"]
                  ELSE sources.environ["INSTRUMENTS"]
        kept == SelectSeq(pieces, LAMBDA s : strip(s) # "")
    IN  [i \in 1..Len(kept) |-> IF EnvListKey = "symbols" THEN lower(strip(kept[i]))
                                ELSE upper(strip(kept[i]))]

\* the value of every key of the loaded configuration is the one its
\* highest-priority source gives: an environment variable before any file, a
\* later file before an earlier one, nested dicts key by key
HighestSourceWins ==
    LET c == self_config.value
        environ == sources.environ
        depth_alone == EnvListKey = "none" /\ "DEPTH" \in DOMAIN environ
    IN  /\ \A k \in KeysSet :
             LET top == FileOf(TopLayer(LayersSetting(k)))[k]
             IN  /\ k \in DOMAIN c
                 /\ IF isinstance_dict(top)
                    THEN /\ isinstance_dict(c[k])
                         /\ \A j \in KeysSetIn(k) :
                              /\ j \in DOMAIN c[k].dict
                              /\ (k = "connection" /\ j = "endpoint"
                                    /\ "WS_ENDPOINT" \in DOMAIN environ)
                                 \/ c[k].dict[j] =
                                      FileOf(TopLayer(LayersSettingIn(k, j)))[k].dict[j]
                    ELSE \/ k = EnvListKey
                         \/ k \in {"symbols", "instruments"} /\ depth_alone
                         \/ c[k] = top
        /\ "WS_ENDPOINT" \in DOMAIN environ =>
             /\ "connection" \in DOMAIN c
             /\ c["connection"].dict.endpoint = Val(environ["WS_ENDPOINT"])
        /\ EnvListKey # "none" =>
             /\ EnvListKey \in DOMAIN c
             /\ Len(c[EnvListKey].val) = Len(EnvNames)
             /\ \A i \in 1..Len(EnvNames) :
                  LET item == c[EnvListKey].val[i].dict
                  IN  /\ item[IF EnvListKey = "symbols" THEN "symbol"
                              ELSE "instrument"] = EnvNames[i]
                      /\ item.enabled
                      /\ "DEPTH" \in DOMAIN environ =>
                           item.depth = int(environ["DEPTH"])
        /\ depth_alone =>
             \A k \in {"symbols", "instruments"} \cap KeysSet :
                LET top == FileOf(TopLayer(LayersSetting(k)))[k].val
                IN  /\ Len(c[k].val) = Len(top)
                    /\ \A i \in 1..Len(top) :
                         /\ isinstance_dict(c[k].val[i])
                         /\ c[k].val[i].dict.depth = int(environ["DEPTH"])
                         /\ isinstance_dict(top[i]) =>
                              \A f \in DOMAIN top[i].dict \ {"depth"} :
                                 c[k].val[i].dict[f] = top[i].dict[f]

\* C37: for every combination of default, environment-specific, local and
\* custom file and of environment variables, load returns a configuration,
\* and in it every key has the value of the highest-priority source that
\* sets it (environment variables > custom > local > environment-specific >
\* default), nested dictionaries being merged key by key so that a key set
\* only in a lower layer survives.
C37_LoadLayersSources ==
    self_config.state # "unloaded" =>
        /\ self_config.state = "loaded"
        /\ HighestSourceWins


\* the combined form of a Binance URL carries a streams parameter
CombinedForm(url) == \E i \in 1..Len(url) : url[i] = "?streams="

\* C38: the Binance adapter connects to the single-stream form of the URL if
\* and only if exactly one stream is configured; with no stream configured
\* the URL is the combined form with an empty streams parameter; and the
\* adapter never sends a frame on the socket.
C38_BinanceUrlForm ==
    exchange = "binance" =>
        /\ outbox = << >>
        /\ ws_url # None =>
             /\ ~CombinedForm(ws_url[1]) <=> Len(streams) = 1
             /\ Len(streams) = 1 => ws_url[1] = endpoint \o <<"/">> \o streams[1]
             /\ Len(streams) = 0 =>
                  /\ Len(ws_url[1]) = Len(endpoint) + 1
                  /\ ws_url[1][Len(ws_url[1])] = "?streams="

\* a Binance listener without any stream has connected to the combined URL
\* with an empty streams parameter and has received a frame, nothing sent
C38_Witness ==
    /\ exchange = "binance"
    /\ streams = << >>
    /\ ws_url # None
    /\ ws_url[1][Len(ws_url[1])] = "?streams="
    /\ connection_status.connected
    /\ connection_status.message_count >= 1
    /\ outbox = << >>


\* a Crypto.com heartbeat frame that carries no id
IsHeartbeatWithoutId(f) == IsHeartbeat(f) /\ "id" \notin DOMAIN f.value

\* C39: receiving a Crypto.com heartbeat frame that carries no id adds 1 to
\* message_count, sends nothing and schedules no reply, leaves
\* latest_market_data, error_count and connected as they were even when the
\* frame carries a book result, and the loop goes on to the next recv; a
\* heartbeat reply is only ever sent for a frame that carries an id.
C39_HeartbeatWithoutId ==
    [][/\ (FrameReceived /\ IsHeartbeatWithoutId(msg'[1])) =>
            /\ connection_status'.message_count = connection_status.message_count + 1
            /\ outbox' = outbox
            /\ pc' = "recv"
            /\ latest_market_data' = latest_market_data
            /\ connection_status'.error_count = connection_status.error_count
            /\ connection_status'.connected = connection_status.connected
            /\ raised' = raised
       /\ (outbox' # outbox /\ pc # "delay") =>
            /\ pc = "hb_reply"
            /\ ~IsHeartbeatWithoutId(msg[1])]_vars

\* a book snapshot is held, and the frame received after it was a heartbeat
\* without id that carries a book result of another instrument: it is
\* counted, the snapshot is the old one, only the subscribe request was sent
C39_Witness ==
    /\ exchange = "crypto.com"
    /\ pc = "recv"
    /\ msg # None
    /\ IsHeartbeatWithoutId(msg[1])
    /\ "result" \in DOMAIN msg[1].value
    /\ connection_status.message_count = 2
    /\ latest_market_data # None
    /\ latest_market_data[1].symbol # "BTC_USDT"
    /\ Len(outbox) = 1
    /\ connection_status.connected

====
